---- MODULE Spec2Model ----
(***************************************************************************)
(* whystack: the hypothesis graph and the confidence-cascade engine.       *)
(*                                                                         *)
(* The persisted tables (Hypothesis, HypothesisEdge, Evidence, Refutation, *)
(* HypothesisWatcher) are the state; every server action of                *)
(* src/app/actions/hypotheses.ts is one atomic step (the calls run to      *)
(* completion one after the other).  The variable `last` holds the         *)
(* arguments and the ActionResult of the call that produced the state.     *)
(***************************************************************************)
EXTENDS Integers, Sequences, FiniteSets, TLC

\* ------------------------------------------------------------------ bounds
MaxHyp == 3
MaxEvidence == 1
MaxRefutation == 1
MaxOrder == 3
MaxReorderLen == 2
CascadeHyp == 4

Ids == 1..MaxHyp
EvidenceIds == 1..MaxEvidence
Null == 0
Users == {"u1"}

\* inputs of the calls
UpdateConfidenceInputs == {50, 90}
Directions == {"SUPPORTS", "WEAKLY_SUPPORTS", "NEUTRAL", "WEAKLY_REFUTES", "REFUTES"}
\* what the external classifier may answer (a direction and a strength 1..5)
ClassifierResults ==
  { [direction |-> "SUPPORTS", strength |-> 5],
    [direction |-> "WEAKLY_REFUTES", strength |-> 1] }

VARIABLES hypothesis, hypothesisEdge, evidence, refutation, hypothesisWatcher,
          nextId, nextEvidenceId, nextRefutationId, last, calls

vars == <<hypothesis, hypothesisEdge, evidence, refutation, hypothesisWatcher,
          nextId, nextEvidenceId, nextRefutationId, last, calls>>

\* ----------------------------------------------------------------- helpers
clamp(value, min, max) ==
  IF value < min THEN min ELSE IF value > max THEN max ELSE value

RECURSIVE SetToSeq(_)
SetToSeq(S) ==
  IF S = {} THEN <<>>
  ELSE LET x == CHOOSE y \in S : \A z \in S : y <= z
       IN <<x>> \o SetToSeq(S \ {x})

\* the rows of a result set in the order the database returns them: the
\* order is not specified by the queries, prio ranks the ids
RECURSIVE SeqByPrio(_, _)
SeqByPrio(S, prio) ==
  IF S = {} THEN <<>>
  ELSE LET x == CHOOSE y \in S : \A z \in S : prio[y] <= prio[z]
       IN <<x>> \o SeqByPrio(S \ {x}, prio)

RECURSIVE SumOver(_, _)
SumOver(S, f) ==
  IF S = {} THEN 0
  ELSE LET x == CHOOSE y \in S : TRUE IN f[x] + SumOver(S \ {x}, f)

MaxOrDefault(S, default) ==
  IF S = {} THEN default ELSE CHOOSE m \in S : \A n \in S : n <= m

Range(s) == {s[i] : i \in 1..Len(s)}

ParentIds(E, id) == {e.parentId : e \in {x \in E : x.childId = id}}
ChildIds(E, id) == {e.childId : e \in {x \in E : x.parentId = id}}

\* ---------------------------------------------------- confidence calculator
SCALE_FACTOR == 3
BASE_CONFIDENCE == 50

\* twice the direction weight (the weights are multiples of one half)
DIRECTION_WEIGHTS2(direction) ==
  CASE direction = "SUPPORTS" -> 2
    [] direction = "WEAKLY_SUPPORTS" -> 1
    [] direction = "NEUTRAL" -> 0
    [] direction = "WEAKLY_REFUTES" -> -1
    [] direction = "REFUTES" -> -2

\* Math.round of n/d for d > 0: halves go up
RoundDiv(n, d) == (2 * n + d) \div (2 * d)

RECURSIVE SumSeq(_)
SumSeq(s) == IF s = <<>> THEN 0 ELSE Head(s) + SumSeq(Tail(s))

\* variant: the score is truncated instead of rounded
calculateConfidenceTruncated(evidenceList) ==
  IF Len(evidenceList) = 0 THEN BASE_CONFIDENCE
  ELSE LET totalScore2 ==
             SumSeq([i \in 1..Len(evidenceList) |->
                       DIRECTION_WEIGHTS2(evidenceList[i].direction)
                         * clamp(evidenceList[i].strength, 1, 5) * SCALE_FACTOR])
           confidence2 == 2 * BASE_CONFIDENCE + totalScore2
       IN clamp(confidence2 \div 2, 0, 100)

\* variant: the final clamp to 0..100 is missing
calculateConfidenceUnclamped(evidenceList) ==
  IF Len(evidenceList) = 0 THEN BASE_CONFIDENCE
  ELSE LET totalScore2 ==
             SumSeq([i \in 1..Len(evidenceList) |->
                       DIRECTION_WEIGHTS2(evidenceList[i].direction)
                         * clamp(evidenceList[i].strength, 1, 5) * SCALE_FACTOR])
           confidence2 == 2 * BASE_CONFIDENCE + totalScore2
       IN RoundDiv(confidence2, 2)

\* evidence: a sequence of (direction, strength) items
calculateConfidence(evidenceList) ==
  IF Len(evidenceList) = 0 THEN BASE_CONFIDENCE
  ELSE LET totalScore2 ==
             SumSeq([i \in 1..Len(evidenceList) |->
                       DIRECTION_WEIGHTS2(evidenceList[i].direction)
                         * clamp(evidenceList[i].strength, 1, 5) * SCALE_FACTOR])
           confidence2 == 2 * BASE_CONFIDENCE + totalScore2
       IN clamp(RoundDiv(confidence2, 2), 0, 100)

\* variant: the own confidence is left out of the average
calculateCascadingConfidenceChildrenOnly(ownConfidence, childrenConfidences) ==
  IF Len(childrenConfidences) = 0 THEN ownConfidence
  ELSE clamp(RoundDiv(SumSeq(childrenConfidences), Len(childrenConfidences)), 0, 100)

\* variant: the average is truncated instead of rounded
calculateCascadingConfidenceTruncated(ownConfidence, childrenConfidences) ==
  IF Len(childrenConfidences) = 0 THEN ownConfidence
  ELSE LET totalComponents == 1 + Len(childrenConfidences)
           sumConfidences == ownConfidence + SumSeq(childrenConfidences)
       IN clamp(sumConfidences \div totalComponents, 0, 100)

calculateCascadingConfidence(ownConfidence, childrenConfidences) ==
  IF Len(childrenConfidences) = 0 THEN ownConfidence
  ELSE LET totalComponents == 1 + Len(childrenConfidences)
           sumConfidences == ownConfidence + SumSeq(childrenConfidences)
       IN clamp(RoundDiv(sumConfidences, totalComponents), 0, 100)

\* ------------------------------------------------------------ graph queries
\* breadth-first walk over the parent edges, with a visited set
RECURSIVE isDescendantLoop(_, _, _, _)
isDescendantLoop(E, queue, visited, ancestorId) ==
  IF queue = <<>> THEN FALSE
  ELSE LET current == Head(queue) IN
       IF current \in visited THEN isDescendantLoop(E, Tail(queue), visited, ancestorId)
       ELSE IF current = ancestorId THEN TRUE
       ELSE LET seen == visited \cup {current}
            IN isDescendantLoop(E,
                 Tail(queue) \o SetToSeq(ParentIds(E, current) \ seen),
                 seen, ancestorId)

\* variant: the walk starts from the wrong end
isDescendantSwapped(E, potentialDescendant, ancestorId) ==
  isDescendantLoop(E, <<ancestorId>>, {}, potentialDescendant)

isDescendant(E, potentialDescendant, ancestorId) ==
  isDescendantLoop(E, <<potentialDescendant>>, {}, ancestorId)

\* markContentUpdated: the ids whose contentUpdatedAt is set to `now`
RECURSIVE markContentUpdatedLoop(_, _, _)
markContentUpdatedLoop(E, queue, visited) ==
  IF queue = <<>> THEN visited
  ELSE LET current == Head(queue) IN
       IF current \in visited THEN markContentUpdatedLoop(E, Tail(queue), visited)
       ELSE LET seen == visited \cup {current}
            IN markContentUpdatedLoop(E,
                 Tail(queue) \o SetToSeq(ParentIds(E, current) \ seen), seen)

\* variant: only the hypothesis itself is stamped
markContentUpdatedSelfOnly(E, hypothesisId) == {hypothesisId}

\* the hypothesis.update calls of markContentUpdated, in the order they are made
RECURSIVE markContentUpdatedWrites(_, _, _, _)
markContentUpdatedWrites(E, queue, visited, writes) ==
  IF queue = <<>> THEN writes
  ELSE LET current == Head(queue) IN
       IF current \in visited
       THEN markContentUpdatedWrites(E, Tail(queue), visited, writes)
       ELSE LET seen == visited \cup {current}
            IN markContentUpdatedWrites(E,
                 Tail(queue) \o SetToSeq(ParentIds(E, current) \ seen),
                 seen, Append(writes, current))

markContentUpdated(E, hypothesisId) == markContentUpdatedLoop(E, <<hypothesisId>>, {})

\* ----------------------------------------------------------- cascade engine
EvidenceOf(EV, id) ==
  LET rows == {ev \in EV : ev.hypothesisId = id}
      ids == SetToSeq({ev.id : ev \in rows})
  IN [i \in 1..Len(ids) |-> CHOOSE ev \in rows : ev.id = ids[i]]

calculateFinalConfidence(H, E, EV, id) ==
  IF id \notin DOMAIN H THEN 50
  ELSE LET ownConfidence == calculateConfidence(EvidenceOf(EV, id))
           children == SetToSeq(ChildIds(E, id) \cap DOMAIN H)
       IN IF ChildIds(E, id) = {} THEN ownConfidence
          ELSE calculateCascadingConfidence(ownConfidence,
                 [i \in 1..Len(children) |-> H[children[i]].confidence])

\* the while loop of recalculateConfidenceWithCascade: H is the Hypothesis
\* table as written so far, updated the change list, visited the ids in the
\* order they were recomputed
RECURSIVE cascadeLoop(_, _, _, _, _, _, _, _)
cascadeLoop(H, E, EV, toProcess, processed, updated, visited, prio) ==
  IF toProcess = <<>> THEN [hypothesis |-> H, updated |-> updated, visited |-> visited]
  ELSE LET currentId == Head(toProcess) IN
       IF currentId \in processed
       THEN cascadeLoop(H, E, EV, Tail(toProcess), processed, updated, visited, prio)
       ELSE IF currentId \notin DOMAIN H
       THEN cascadeLoop(H, E, EV, Tail(toProcess), processed \cup {currentId},
                        updated, visited, prio)
       ELSE LET newConfidence == calculateFinalConfidence(H, E, EV, currentId)
                done == processed \cup {currentId}
                changed == newConfidence # H[currentId].confidence
                H2 == IF changed
                      THEN [H EXCEPT ![currentId].confidence = newConfidence]
                      ELSE H
                updated2 == IF changed
                            THEN Append(updated, [id |-> currentId,
                                                  old |-> H[currentId].confidence,
                                                  new |-> newConfidence])
                            ELSE updated
                parents == SeqByPrio(ParentIds(E, currentId) \ done, prio)
            IN cascadeLoop(H2, E, EV, Tail(toProcess) \o parents, done,
                           updated2, Append(visited, currentId), prio)

\* variant: the loop without the processed set
RECURSIVE cascadeLoopNoProcessed(_, _, _, _, _, _, _)
cascadeLoopNoProcessed(H, E, EV, toProcess, updated, visited, prio) ==
  IF toProcess = <<>> THEN [hypothesis |-> H, updated |-> updated, visited |-> visited]
  ELSE LET currentId == Head(toProcess)
           newConfidence == calculateFinalConfidence(H, E, EV, currentId)
           changed == newConfidence # H[currentId].confidence
           H2 == IF changed
                 THEN [H EXCEPT ![currentId].confidence = newConfidence]
                 ELSE H
           updated2 == IF changed
                       THEN Append(updated, [id |-> currentId,
                                             old |-> H[currentId].confidence,
                                             new |-> newConfidence])
                       ELSE updated
           parents == SeqByPrio(ParentIds(E, currentId), prio)
       IN cascadeLoopNoProcessed(H2, E, EV, Tail(toProcess) \o parents,
                                 updated2, Append(visited, currentId), prio)

recalculateConfidenceWithCascadeNoProcessed(H, E, EV, hypothesisId, prio) ==
  cascadeLoopNoProcessed(H, E, EV, <<hypothesisId>>, <<>>, <<>>, prio)

\* variant: the loop queues the children as well as the parents
RECURSIVE cascadeLoopBothWays(_, _, _, _, _, _, _, _)
cascadeLoopBothWays(H, E, EV, toProcess, processed, updated, visited, prio) ==
  IF toProcess = <<>> THEN [hypothesis |-> H, updated |-> updated, visited |-> visited]
  ELSE LET currentId == Head(toProcess) IN
       IF currentId \in processed
       THEN cascadeLoopBothWays(H, E, EV, Tail(toProcess), processed, updated, visited, prio)
       ELSE LET newConfidence == calculateFinalConfidence(H, E, EV, currentId)
                done == processed \cup {currentId}
                changed == newConfidence # H[currentId].confidence
                H2 == IF changed
                      THEN [H EXCEPT ![currentId].confidence = newConfidence]
                      ELSE H
                updated2 == IF changed
                            THEN Append(updated, [id |-> currentId,
                                                  old |-> H[currentId].confidence,
                                                  new |-> newConfidence])
                            ELSE updated
                around == SeqByPrio((ParentIds(E, currentId) \cup ChildIds(E, currentId))
                                      \ done, prio)
            IN cascadeLoopBothWays(H2, E, EV, Tail(toProcess) \o around, done,
                                   updated2, Append(visited, currentId), prio)

recalculateConfidenceWithCascadeBothWays(H, E, EV, hypothesisId, prio) ==
  cascadeLoopBothWays(H, E, EV, <<hypothesisId>>, {}, <<>>, <<>>, prio)

recalculateConfidenceWithCascade(H, E, EV, hypothesisId, prio) ==
  cascadeLoop(H, E, EV, <<hypothesisId>>, {}, <<>>, <<>>, prio)

\* the two passes of recalculateAllConfidences over the rows in the order
\* findMany returned them
\* variant: the children are ignored
processHypothesisOwnOnly(E, base, final, h) == base[h]

processHypothesis(E, base, final, h) ==
  LET ownConfidence == base[h]
      children == SetToSeq(ChildIds(E, h))
  IN IF Len(children) = 0 THEN ownConfidence
     ELSE calculateCascadingConfidence(ownConfidence,
            [i \in 1..Len(children) |->
               IF children[i] \in DOMAIN final THEN final[children[i]] ELSE 50])

canProcess(E, processed, h) == \A c \in ChildIds(E, h) : c \in processed

\* one wave: the for loop over `remaining`
RECURSIVE scanWave(_, _, _, _, _)
scanWave(E, base, remaining, final, nextRemaining) ==
  IF remaining = <<>> THEN [final |-> final, nextRemaining |-> nextRemaining]
  ELSE LET h == Head(remaining) IN
       IF canProcess(E, DOMAIN final, h)
       THEN scanWave(E, base, Tail(remaining),
                     (h :> processHypothesis(E, base, final, h)) @@ final,
                     nextRemaining)
       ELSE scanWave(E, base, Tail(remaining), final, Append(nextRemaining, h))

\* the while loop: waves until nothing remains or a wave makes no progress
RECURSIVE waveLoop(_, _, _, _)
waveLoop(E, base, remaining, final) ==
  IF remaining = <<>> THEN final
  ELSE LET w == scanWave(E, base, remaining, final, <<>>)
       IN IF Len(w.nextRemaining) = Len(remaining) THEN w.final
          ELSE waveLoop(E, base, w.nextRemaining, w.final)

\* the final write loop: only rows whose value differs are written
\* variant: a row that was never finalized is written with the default 50
RECURSIVE writeAllDefaultFifty(_, _, _, _)
writeAllDefaultFifty(H, rows, final, updates) ==
  IF rows = <<>> THEN [hypothesis |-> H, updated |-> updates]
  ELSE LET h == Head(rows)
           newConfidence == IF h \in DOMAIN final THEN final[h] ELSE 50
       IN IF newConfidence # H[h].confidence
          THEN writeAllDefaultFifty([H EXCEPT ![h].confidence = newConfidence],
                                    Tail(rows), final,
                                    Append(updates, [id |-> h, old |-> H[h].confidence,
                                                     new |-> newConfidence]))
          ELSE writeAllDefaultFifty(H, Tail(rows), final, updates)

RECURSIVE writeAll(_, _, _, _)
writeAll(H, rows, final, updates) ==
  IF rows = <<>> THEN [hypothesis |-> H, updated |-> updates]
  ELSE LET h == Head(rows)
           newConfidence == IF h \in DOMAIN final THEN final[h] ELSE H[h].confidence
       IN IF newConfidence # H[h].confidence
          THEN writeAll([H EXCEPT ![h].confidence = newConfidence], Tail(rows), final,
                        Append(updates, [id |-> h, old |-> H[h].confidence,
                                         new |-> newConfidence]))
          ELSE writeAll(H, Tail(rows), final, updates)

recalculateAllConfidencesResult(H, E, EV, prio) ==
  LET hypotheses == SeqByPrio(DOMAIN H, prio)
      baseConfidences == [h \in DOMAIN H |-> calculateConfidence(EvidenceOf(EV, h))]
      finalConfidences == waveLoop(E, baseConfidences, hypotheses, <<>>)
  IN writeAll(H, hypotheses, finalConfidences, <<>>)

\* ------------------------------------------------------------------- state
Statements == {"", "s"}
trim(text) == text

Result(op, ok, error) ==
  [op |-> op, ok |-> ok, error |-> error, id |-> Null, parentId |-> Null,
   orderedIds |-> <<>>, newId |-> Null, evidenceId |-> Null,
   emitted |-> <<>>, touched |-> {}, cascadeRan |-> FALSE, cascadeResult |-> "none",
   updated |-> <<>>, visited |-> <<>>, skippedAutoCalc |-> "absent",
   removed |-> 0]

\* the requests served at the same time, and where each stands: a call that
\* has not finished keeps what it read so far
Procs == {"a", "b"}
NoCall == [pc |-> "idle", parentId |-> Null, childId |-> Null, maxOrder |-> -1]

Activity(hypothesisId, type) == [hypothesisId |-> hypothesisId, type |-> type]

Init ==
  /\ hypothesis = <<>>
  /\ hypothesisEdge = {}
  /\ evidence = {}
  /\ refutation = {}
  /\ hypothesisWatcher = {}
  /\ nextId = 1
  /\ nextEvidenceId = 1
  /\ nextRefutationId = 1
  /\ last = Result("init", TRUE, "")
  /\ calls = [p \in Procs |-> NoCall]

\* a call that returns without writing a row
Rejected(result) ==
  /\ last' = result
  /\ UNCHANGED <<calls, hypothesis, hypothesisEdge, evidence, refutation, hypothesisWatcher,
                 nextId, nextEvidenceId, nextRefutationId>>

\* a row of Hypothesis as prisma.hypothesis.create writes it
NewRow(confidence, order) ==
  [confidence |-> clamp(confidence, 0, 100), confidenceIsManual |-> FALSE,
   isArchived |-> FALSE, order |-> order]

Roots(H, E) == {h \in DOMAIN H : ~H[h].isArchived /\ ParentIds(E, h) = {}}

EdgeOrders(E, parentId) == {e.order : e \in {x \in E : x.parentId = parentId}}

\* ----------------------------------------------------------------- actions
createHypothesis(statement, confidence) ==
  IF trim(statement) = ""
  THEN Rejected(Result("createHypothesis", FALSE, "Statement is required"))
  ELSE /\ nextId <= MaxHyp
       /\ LET maxOrder == MaxOrDefault({hypothesis[h].order :
                                          h \in Roots(hypothesis, hypothesisEdge)}, -1)
          IN hypothesis' = (nextId :> NewRow(confidence, maxOrder + 1)) @@ hypothesis
       /\ nextId' = nextId + 1
       /\ last' = [Result("createHypothesis", TRUE, "") EXCEPT
                     !.newId = nextId,
                     !.emitted = <<Activity(nextId, "HYPOTHESIS_CREATED")>>]
       /\ UNCHANGED <<calls, hypothesisEdge, evidence, refutation, hypothesisWatcher,
                      nextEvidenceId, nextRefutationId>>

\* variant: every successful update marks the confidence as manual
updateHypothesisAlwaysManual(id, statement, confidence) ==
  IF trim(statement) = ""
  THEN Rejected(Result("updateHypothesis", FALSE, "Statement is required"))
  ELSE IF id \notin DOMAIN hypothesis
  THEN Rejected(Result("updateHypothesis", FALSE, "Failed to update hypothesis"))
  ELSE LET newConfidence == clamp(confidence, 0, 100)
           confidenceChanged == hypothesis[id].confidence # newConfidence
       IN /\ hypothesis' =
               [hypothesis EXCEPT
                  ![id].confidence = newConfidence,
                  ![id].confidenceIsManual = TRUE]
          /\ last' = [Result("updateHypothesis", TRUE, "") EXCEPT
                        !.id = id,
                        !.emitted = IF confidenceChanged
                                    THEN <<Activity(id, "CONFIDENCE_CHANGED")>>
                                    ELSE <<>>,
                        !.touched = markContentUpdated(hypothesisEdge, id)]
          /\ UNCHANGED <<calls, hypothesisEdge, evidence, refutation, hypothesisWatcher,
                         nextId, nextEvidenceId, nextRefutationId>>

updateHypothesis(id, statement, confidence) ==
  IF trim(statement) = ""
  THEN Rejected(Result("updateHypothesis", FALSE, "Statement is required"))
  ELSE IF id \notin DOMAIN hypothesis
  THEN Rejected(Result("updateHypothesis", FALSE, "Failed to update hypothesis"))
  ELSE LET newConfidence == clamp(confidence, 0, 100)
           confidenceChanged == hypothesis[id].confidence # newConfidence
       IN /\ hypothesis' =
               [hypothesis EXCEPT
                  ![id].confidence = newConfidence,
                  ![id].confidenceIsManual = IF confidenceChanged THEN TRUE ELSE @]
          /\ last' = [Result("updateHypothesis", TRUE, "") EXCEPT
                        !.id = id,
                        !.emitted = IF confidenceChanged
                                    THEN <<Activity(id, "CONFIDENCE_CHANGED")>>
                                    ELSE <<>>,
                        !.touched = markContentUpdated(hypothesisEdge, id)]
          /\ UNCHANGED <<calls, hypothesisEdge, evidence, refutation, hypothesisWatcher,
                         nextId, nextEvidenceId, nextRefutationId>>

createChildHypothesisAndEdge(parentId, statement, confidence) ==
  IF trim(statement) = ""
  THEN Rejected(Result("createChildHypothesisAndEdge", FALSE, "Statement is required"))
  ELSE IF parentId \notin DOMAIN hypothesis
  THEN \* the edge insert violates the foreign key: the transaction rolls back
       Rejected(Result("createChildHypothesisAndEdge", FALSE,
                       "Failed to create child hypothesis"))
  ELSE LET maxEdgeOrder == MaxOrDefault(EdgeOrders(hypothesisEdge, parentId), -1)
           E2 == hypothesisEdge \cup
                   {[parentId |-> parentId, childId |-> nextId,
                     order |-> maxEdgeOrder + 1]}
       IN /\ nextId <= MaxHyp
          /\ maxEdgeOrder + 1 <= MaxOrder
          \* the child row takes the column default of `order`
          /\ hypothesis' = (nextId :> NewRow(confidence, 0)) @@ hypothesis
          /\ hypothesisEdge' = E2
          /\ nextId' = nextId + 1
          /\ last' = [Result("createChildHypothesisAndEdge", TRUE, "") EXCEPT
                        !.parentId = parentId,
                        !.newId = nextId,
                        !.touched = markContentUpdated(E2, parentId),
                        !.emitted = <<Activity(nextId, "HYPOTHESIS_CREATED"),
                                      Activity(parentId, "CHILD_ADDED")>>]
          /\ UNCHANGED <<calls, evidence, refutation, hypothesisWatcher,
                         nextEvidenceId, nextRefutationId>>

\* variant: the cascade runs whether or not the confidence is manual
addClassifiedEvidenceAlwaysCascade(op, hypothesisId, classification, prio) ==
  LET manual == hypothesis[hypothesisId].confidenceIsManual
      EV2 == evidence \cup {[id |-> nextEvidenceId, hypothesisId |-> hypothesisId,
                             direction |-> classification.direction,
                             strength |-> classification.strength]}
      c == recalculateConfidenceWithCascade(hypothesis, hypothesisEdge, EV2,
                                            hypothesisId, prio)
  IN /\ nextEvidenceId <= MaxEvidence
     /\ evidence' = EV2
     /\ nextEvidenceId' = nextEvidenceId + 1
     /\ hypothesis' = c.hypothesis
     /\ last' = [Result(op, TRUE, "") EXCEPT
                   !.id = hypothesisId,
                   !.evidenceId = nextEvidenceId,
                   !.touched = markContentUpdated(hypothesisEdge, hypothesisId),
                   !.emitted = <<Activity(hypothesisId, "EVIDENCE_ADDED")>>,
                   !.cascadeRan = ~manual,
                   !.cascadeResult = IF manual THEN "null" ELSE "value",
                   !.updated = IF manual THEN <<>> ELSE c.updated,
                   !.visited = IF manual THEN <<>> ELSE c.visited,
                   !.skippedAutoCalc = IF manual THEN "true" ELSE "false"]
     /\ UNCHANGED <<calls, hypothesisEdge, refutation, hypothesisWatcher, nextId,
                    nextRefutationId>>

\* addEvidenceSimple and addChallengeSimple after the classification is chosen
addClassifiedEvidence(op, hypothesisId, classification, prio) ==
  LET manual == hypothesis[hypothesisId].confidenceIsManual
      EV2 == evidence \cup {[id |-> nextEvidenceId, hypothesisId |-> hypothesisId,
                             direction |-> classification.direction,
                             strength |-> classification.strength]}
      c == recalculateConfidenceWithCascade(hypothesis, hypothesisEdge, EV2,
                                            hypothesisId, prio)
  IN /\ nextEvidenceId <= MaxEvidence
     /\ evidence' = EV2
     /\ nextEvidenceId' = nextEvidenceId + 1
     /\ hypothesis' = IF manual THEN hypothesis ELSE c.hypothesis
     /\ last' = [Result(op, TRUE, "") EXCEPT
                   !.id = hypothesisId,
                   !.evidenceId = nextEvidenceId,
                   !.touched = markContentUpdated(hypothesisEdge, hypothesisId),
                   !.emitted = <<Activity(hypothesisId, "EVIDENCE_ADDED")>>,
                   !.cascadeRan = ~manual,
                   !.cascadeResult = IF manual THEN "null" ELSE "value",
                   !.updated = IF manual THEN <<>> ELSE c.updated,
                   !.visited = IF manual THEN <<>> ELSE c.visited,
                   !.skippedAutoCalc = IF manual THEN "true" ELSE "false"]
     /\ UNCHANGED <<calls, hypothesisEdge, refutation, hypothesisWatcher, nextId,
                    nextRefutationId>>

addEvidenceSimple(hypothesisId, summary, aiResult, prio) ==
  IF trim(summary) = ""
  THEN Rejected(Result("addEvidenceSimple", FALSE, "Evidence text is required"))
  ELSE IF hypothesisId \notin DOMAIN hypothesis
  THEN Rejected(Result("addEvidenceSimple", FALSE, "Hypothesis not found"))
  ELSE addClassifiedEvidence("addEvidenceSimple", hypothesisId,
         IF hypothesis[hypothesisId].confidenceIsManual
         THEN [direction |-> "SUPPORTS", strength |-> 3]
         ELSE aiResult,
         prio)

\* variant: the classifier's direction is stored as it is
addChallengeSimpleKeepsDirection(hypothesisId, summary, aiResult, prio) ==
  IF trim(summary) = ""
  THEN Rejected(Result("addChallengeSimple", FALSE, "Challenge text is required"))
  ELSE IF hypothesisId \notin DOMAIN hypothesis
  THEN Rejected(Result("addChallengeSimple", FALSE, "Hypothesis not found"))
  ELSE addClassifiedEvidence("addChallengeSimple", hypothesisId,
         IF hypothesis[hypothesisId].confidenceIsManual
         THEN [direction |-> "REFUTES", strength |-> 3]
         ELSE aiResult,
         prio)

addChallengeSimple(hypothesisId, summary, aiResult, prio) ==
  IF trim(summary) = ""
  THEN Rejected(Result("addChallengeSimple", FALSE, "Challenge text is required"))
  ELSE IF hypothesisId \notin DOMAIN hypothesis
  THEN Rejected(Result("addChallengeSimple", FALSE, "Hypothesis not found"))
  ELSE addClassifiedEvidence("addChallengeSimple", hypothesisId,
         IF hypothesis[hypothesisId].confidenceIsManual
         THEN [direction |-> "REFUTES", strength |-> 3]
         ELSE [direction |-> IF aiResult.direction \in {"WEAKLY_REFUTES", "REFUTES"}
                             THEN aiResult.direction ELSE "REFUTES",
               strength |-> aiResult.strength],
         prio)

updateEvidence(evidenceId, summary, aiResult, prio) ==
  IF trim(summary) = ""
  THEN Rejected(Result("updateEvidence", FALSE, "Evidence text is required"))
  ELSE IF ~\E ev \in evidence : ev.id = evidenceId
  THEN Rejected(Result("updateEvidence", FALSE, "Evidence not found"))
  ELSE LET row == CHOOSE ev \in evidence : ev.id = evidenceId
           hid == row.hypothesisId
           manual == hypothesis[hid].confidenceIsManual
           classification == IF manual
                             THEN [direction |-> row.direction, strength |-> row.strength]
                             ELSE aiResult
           EV2 == (evidence \ {row}) \cup
                    {[row EXCEPT !.direction = classification.direction,
                                 !.strength = classification.strength]}
           c == recalculateConfidenceWithCascade(hypothesis, hypothesisEdge, EV2, hid, prio)
       IN /\ evidence' = EV2
          /\ hypothesis' = IF manual THEN hypothesis ELSE c.hypothesis
          /\ last' = [Result("updateEvidence", TRUE, "") EXCEPT
                        !.id = hid,
                        !.evidenceId = evidenceId,
                        !.touched = markContentUpdated(hypothesisEdge, hid),
                        !.emitted = <<Activity(hid, "EVIDENCE_UPDATED")>>,
                        !.cascadeRan = ~manual,
                        !.updated = IF manual THEN <<>> ELSE c.updated,
                        !.visited = IF manual THEN <<>> ELSE c.visited,
                        !.skippedAutoCalc = IF manual THEN "true" ELSE "false"]
          /\ UNCHANGED <<calls, hypothesisEdge, refutation, hypothesisWatcher, nextId,
                         nextEvidenceId, nextRefutationId>>

deleteEvidence(evidenceId, prio) ==
  IF ~\E ev \in evidence : ev.id = evidenceId
  THEN Rejected(Result("deleteEvidence", FALSE, "Evidence not found"))
  ELSE LET row == CHOOSE ev \in evidence : ev.id = evidenceId
           hid == row.hypothesisId
           manual == hypothesis[hid].confidenceIsManual
           EV2 == evidence \ {row}
           c == recalculateConfidenceWithCascade(hypothesis, hypothesisEdge, EV2, hid, prio)
       IN /\ evidence' = EV2
          /\ hypothesis' = IF manual THEN hypothesis ELSE c.hypothesis
          /\ last' = [Result("deleteEvidence", TRUE, "") EXCEPT
                        !.id = hid,
                        !.evidenceId = evidenceId,
                        !.touched = markContentUpdated(hypothesisEdge, hid),
                        !.emitted = <<Activity(hid, "EVIDENCE_UPDATED")>>,
                        !.cascadeRan = ~manual,
                        !.updated = IF manual THEN <<>> ELSE c.updated,
                        !.visited = IF manual THEN <<>> ELSE c.visited]
          /\ UNCHANGED <<calls, hypothesisEdge, refutation, hypothesisWatcher, nextId,
                         nextEvidenceId, nextRefutationId>>

addRefutation(hypothesisId, summary) ==
  IF trim(summary) = ""
  THEN Rejected(Result("addRefutation", FALSE, "Summary is required"))
  ELSE IF hypothesisId \notin DOMAIN hypothesis
  THEN Rejected(Result("addRefutation", FALSE, "Failed to add refutation"))
  ELSE /\ nextRefutationId <= MaxRefutation
       /\ refutation' = refutation \cup
                          {[id |-> nextRefutationId, hypothesisId |-> hypothesisId]}
       /\ nextRefutationId' = nextRefutationId + 1
       /\ last' = [Result("addRefutation", TRUE, "") EXCEPT !.id = hypothesisId]
       /\ UNCHANGED <<calls, hypothesis, hypothesisEdge, evidence, hypothesisWatcher,
                      nextId, nextEvidenceId>>

recalculateConfidence(hypothesisId) ==
  IF hypothesisId \notin DOMAIN hypothesis
  THEN Rejected(Result("recalculateConfidence", FALSE, "Failed to recalculate confidence"))
  ELSE /\ hypothesis' = [hypothesis EXCEPT ![hypothesisId].confidence =
                           calculateConfidence(EvidenceOf(evidence, hypothesisId))]
       /\ last' = [Result("recalculateConfidence", TRUE, "") EXCEPT !.id = hypothesisId]
       /\ UNCHANGED <<calls, hypothesisEdge, evidence, refutation, hypothesisWatcher,
                      nextId, nextEvidenceId, nextRefutationId>>

recalculateAllConfidences(prio) ==
  LET r == recalculateAllConfidencesResult(hypothesis, hypothesisEdge, evidence, prio)
  IN /\ hypothesis' = r.hypothesis
     /\ last' = [Result("recalculateAllConfidences", TRUE, "") EXCEPT
                   !.updated = r.updated]
     /\ UNCHANGED <<calls, hypothesisEdge, evidence, refutation, hypothesisWatcher,
                    nextId, nextEvidenceId, nextRefutationId>>

addEvidence(hypothesisId, direction, strength, summary) ==
  IF trim(summary) = ""
  THEN Rejected(Result("addEvidence", FALSE, "Summary is required"))
  ELSE IF hypothesisId \notin DOMAIN hypothesis
  THEN Rejected(Result("addEvidence", FALSE, "Failed to add evidence"))
  ELSE /\ nextEvidenceId <= MaxEvidence
       /\ evidence' = evidence \cup
                        {[id |-> nextEvidenceId, hypothesisId |-> hypothesisId,
                          direction |-> direction, strength |-> clamp(strength, 1, 5)]}
       /\ nextEvidenceId' = nextEvidenceId + 1
       /\ last' = [Result("addEvidence", TRUE, "") EXCEPT
                     !.id = hypothesisId, !.evidenceId = nextEvidenceId]
       /\ UNCHANGED <<calls, hypothesis, hypothesisEdge, refutation, hypothesisWatcher,
                      nextId, nextRefutationId>>

\* the edge insert of moveHypothesisToParent and linkExistingHypothesis:
\* order = (max order under the parent, or -1) + 1
NewEdge(E, parentId, childId) ==
  [parentId |-> parentId, childId |-> childId,
   order |-> MaxOrDefault(EdgeOrders(E, parentId), -1) + 1]

\* variant: the existing-edge check is missing
moveHypothesisToParentNoDuplicateCheck(hypothesisId, newParentId) ==
  LET res(ok, error) == Result("moveHypothesisToParent", ok, error)
      E1 == {e \in hypothesisEdge : e.childId # hypothesisId}
      edge == NewEdge(E1, newParentId, hypothesisId)
  IN IF hypothesisId = newParentId
     THEN Rejected(res(FALSE, "Cannot make hypothesis a child of itself"))
     ELSE IF isDescendant(hypothesisEdge, newParentId, hypothesisId)
     THEN Rejected(res(FALSE, "Cannot move: would create a cycle (target is a descendant)"))
     ELSE IF hypothesisId \notin DOMAIN hypothesis \/ newParentId \notin DOMAIN hypothesis
     THEN Rejected(res(FALSE, "Failed to move hypothesis"))
     ELSE /\ edge.order <= MaxOrder
          /\ hypothesisEdge' = E1 \cup {edge}
          /\ last' = [res(TRUE, "") EXCEPT
                        !.id = hypothesisId, !.parentId = newParentId,
                        !.removed = Cardinality(hypothesisEdge \ E1)]
          /\ UNCHANGED <<calls, hypothesis, evidence, refutation, hypothesisWatcher,
                         nextId, nextEvidenceId, nextRefutationId>>

\* variant: the old parent edges are not deleted
moveHypothesisToParentKeepsParents(hypothesisId, newParentId) ==
  LET res(ok, error) == Result("moveHypothesisToParent", ok, error)
      edge == NewEdge(hypothesisEdge, newParentId, hypothesisId)
  IN IF hypothesisId = newParentId
     THEN Rejected(res(FALSE, "Cannot make hypothesis a child of itself"))
     ELSE IF isDescendant(hypothesisEdge, newParentId, hypothesisId)
     THEN Rejected(res(FALSE, "Cannot move: would create a cycle (target is a descendant)"))
     ELSE IF \E e \in hypothesisEdge :
               e.parentId = newParentId /\ e.childId = hypothesisId
     THEN Rejected(res(FALSE, "This relationship already exists"))
     ELSE IF hypothesisId \notin DOMAIN hypothesis \/ newParentId \notin DOMAIN hypothesis
     THEN Rejected(res(FALSE, "Failed to move hypothesis"))
     ELSE /\ edge.order <= MaxOrder
          /\ hypothesisEdge' = hypothesisEdge \cup {edge}
          /\ last' = [res(TRUE, "") EXCEPT
                        !.id = hypothesisId, !.parentId = newParentId,
                        !.removed = Cardinality({e \in hypothesisEdge :
                                                   e.childId = hypothesisId})]
          /\ UNCHANGED <<calls, hypothesis, evidence, refutation, hypothesisWatcher,
                         nextId, nextEvidenceId, nextRefutationId>>

moveHypothesisToParent(hypothesisId, newParentId) ==
  LET res(ok, error) == Result("moveHypothesisToParent", ok, error)
      E1 == {e \in hypothesisEdge : e.childId # hypothesisId}
      edge == NewEdge(E1, newParentId, hypothesisId)
  IN IF hypothesisId = newParentId
     THEN Rejected(res(FALSE, "Cannot make hypothesis a child of itself"))
     ELSE IF isDescendant(hypothesisEdge, newParentId, hypothesisId)
     THEN Rejected(res(FALSE, "Cannot move: would create a cycle (target is a descendant)"))
     ELSE IF \E e \in hypothesisEdge :
               e.parentId = newParentId /\ e.childId = hypothesisId
     THEN Rejected(res(FALSE, "This relationship already exists"))
     ELSE IF hypothesisId \notin DOMAIN hypothesis \/ newParentId \notin DOMAIN hypothesis
     THEN \* foreign key violation inside the transaction: rolled back
          Rejected(res(FALSE, "Failed to move hypothesis"))
     ELSE /\ edge.order <= MaxOrder
          /\ hypothesisEdge' = E1 \cup {edge}
          /\ last' = [res(TRUE, "") EXCEPT
                        !.id = hypothesisId, !.parentId = newParentId,
                        !.removed = Cardinality(hypothesisEdge \ E1)]
          /\ UNCHANGED <<calls, hypothesis, evidence, refutation, hypothesisWatcher,
                         nextId, nextEvidenceId, nextRefutationId>>

\* variant: the child's other parent edges are deleted first
linkExistingHypothesisReplacesParents(parentId, childId) ==
  LET res(ok, error) == Result("linkExistingHypothesis", ok, error)
      E1 == {e \in hypothesisEdge : e.childId # childId}
      edge == NewEdge(E1, parentId, childId)
      E2 == E1 \cup {edge}
  IN IF parentId = Null
     THEN /\ hypothesisEdge' = E1
          /\ last' = [res(TRUE, "") EXCEPT !.id = childId]
          /\ UNCHANGED <<calls, hypothesis, evidence, refutation, hypothesisWatcher,
                         nextId, nextEvidenceId, nextRefutationId>>
     ELSE IF childId = parentId
     THEN Rejected(res(FALSE, "Cannot make hypothesis a child of itself"))
     ELSE IF isDescendant(hypothesisEdge, parentId, childId)
     THEN Rejected(res(FALSE, "Cannot link: would create a cycle (target is a descendant)"))
     ELSE IF \E e \in hypothesisEdge : e.parentId = parentId /\ e.childId = childId
     THEN Rejected(res(FALSE, "This relationship already exists"))
     ELSE IF childId \notin DOMAIN hypothesis \/ parentId \notin DOMAIN hypothesis
     THEN Rejected(res(FALSE, "Failed to link hypothesis"))
     ELSE /\ edge.order <= MaxOrder
          /\ hypothesisEdge' = E2
          /\ last' = [res(TRUE, "") EXCEPT
                        !.id = childId, !.parentId = parentId,
                        !.touched = markContentUpdated(E2, parentId),
                        !.emitted = <<Activity(parentId, "CHILD_ADDED")>>]
          /\ UNCHANGED <<calls, hypothesis, evidence, refutation, hypothesisWatcher,
                         nextId, nextEvidenceId, nextRefutationId>>

linkExistingHypothesis(parentId, childId) ==
  LET res(ok, error) == Result("linkExistingHypothesis", ok, error)
      edge == NewEdge(hypothesisEdge, parentId, childId)
      E2 == hypothesisEdge \cup {edge}
  IN IF parentId = Null
     THEN /\ hypothesisEdge' = {e \in hypothesisEdge : e.childId # childId}
          /\ last' = [res(TRUE, "") EXCEPT !.id = childId]
          /\ UNCHANGED <<calls, hypothesis, evidence, refutation, hypothesisWatcher,
                         nextId, nextEvidenceId, nextRefutationId>>
     ELSE IF childId = parentId
     THEN Rejected(res(FALSE, "Cannot make hypothesis a child of itself"))
     ELSE IF isDescendant(hypothesisEdge, parentId, childId)
     THEN Rejected(res(FALSE, "Cannot link: would create a cycle (target is a descendant)"))
     ELSE IF \E e \in hypothesisEdge : e.parentId = parentId /\ e.childId = childId
     THEN Rejected(res(FALSE, "This relationship already exists"))
     ELSE IF childId \notin DOMAIN hypothesis \/ parentId \notin DOMAIN hypothesis
     THEN Rejected(res(FALSE, "Failed to link hypothesis"))
     ELSE /\ edge.order <= MaxOrder
          /\ hypothesisEdge' = E2
          /\ last' = [res(TRUE, "") EXCEPT
                        !.id = childId, !.parentId = parentId,
                        !.touched = markContentUpdated(E2, parentId),
                        !.emitted = <<Activity(parentId, "CHILD_ADDED")>>]
          /\ UNCHANGED <<calls, hypothesis, evidence, refutation, hypothesisWatcher,
                         nextId, nextEvidenceId, nextRefutationId>>

\* variant: the update matches on childId alone
RECURSIVE reorderEdgesAnyParent(_, _, _, _)
reorderEdgesAnyParent(E, parentId, orderedIds, index) ==
  IF index >= Len(orderedIds) THEN E
  ELSE reorderEdgesAnyParent(
         {IF e.childId = orderedIds[index + 1]
          THEN [e EXCEPT !.order = index] ELSE e : e \in E},
         parentId, orderedIds, index + 1)

\* updateMany({parentId, childId}, {order: index}) for each index in turn
RECURSIVE reorderEdges(_, _, _, _)
reorderEdges(E, parentId, orderedIds, index) ==
  IF index >= Len(orderedIds) THEN E
  ELSE reorderEdges(
         {IF e.parentId = parentId /\ e.childId = orderedIds[index + 1]
          THEN [e EXCEPT !.order = index] ELSE e : e \in E},
         parentId, orderedIds, index + 1)

\* hypothesis.update({id}, {order: index}) for each index in turn
RECURSIVE reorderRoots(_, _, _)
reorderRoots(H, orderedIds, index) ==
  IF index >= Len(orderedIds) THEN H
  ELSE reorderRoots([H EXCEPT ![orderedIds[index + 1]].order = index],
                    orderedIds, index + 1)

reorderHypotheses(orderedIds, parentId) ==
  LET res(ok, error) ==
        IF ok THEN [Result("reorderHypotheses", ok, error) EXCEPT
                      !.orderedIds = orderedIds, !.parentId = parentId]
        ELSE Result("reorderHypotheses", ok, error)
  IN IF parentId # Null
     THEN /\ hypothesisEdge' = reorderEdges(hypothesisEdge, parentId, orderedIds, 0)
          /\ last' = res(TRUE, "")
          /\ UNCHANGED <<calls, hypothesis, evidence, refutation, hypothesisWatcher,
                         nextId, nextEvidenceId, nextRefutationId>>
     ELSE IF \E i \in 1..Len(orderedIds) : orderedIds[i] \notin DOMAIN hypothesis
     THEN \* update of a missing row throws: the batch transaction rolls back
          Rejected(res(FALSE, "Failed to reorder"))
     ELSE /\ hypothesis' = reorderRoots(hypothesis, orderedIds, 0)
          /\ last' = res(TRUE, "")
          /\ UNCHANGED <<calls, hypothesisEdge, evidence, refutation, hypothesisWatcher,
                         nextId, nextEvidenceId, nextRefutationId>>

archiveHypothesis(id, isArchived) ==
  IF id \notin DOMAIN hypothesis
  THEN Rejected(Result("archiveHypothesis", FALSE, "Failed to archive hypothesis"))
  ELSE /\ hypothesis' = [hypothesis EXCEPT ![id].isArchived = isArchived]
       /\ last' = [Result("archiveHypothesis", TRUE, "") EXCEPT
                     !.id = id,
                     !.emitted = IF isArchived
                                 THEN <<Activity(id, "HYPOTHESIS_ARCHIVED")>>
                                 ELSE <<>>]
       /\ UNCHANGED <<calls, hypothesisEdge, evidence, refutation, hypothesisWatcher,
                      nextId, nextEvidenceId, nextRefutationId>>

\* variant: only the edges above the hypothesis are deleted
deleteHypothesisChildEdgesOnly(id) ==
  LET parentEdges == SetToSeq(ParentIds(hypothesisEdge, id))
  IN IF id \notin DOMAIN hypothesis
     THEN Rejected(Result("deleteHypothesis", FALSE, "Failed to delete hypothesis"))
     ELSE /\ hypothesisEdge' = {e \in hypothesisEdge : ~(e.childId = id)}
          /\ evidence' = {ev \in evidence : ev.hypothesisId # id}
          /\ refutation' = {r \in refutation : r.hypothesisId # id}
          /\ hypothesisWatcher' = {w \in hypothesisWatcher : w.hypothesisId # id}
          /\ hypothesis' = [h \in DOMAIN hypothesis \ {id} |-> hypothesis[h]]
          /\ last' = [Result("deleteHypothesis", TRUE, "") EXCEPT
                        !.id = id,
                        !.emitted = [i \in 1..Len(parentEdges) |->
                                       Activity(parentEdges[i], "HYPOTHESIS_DELETED")]]
          /\ UNCHANGED <<calls, nextId, nextEvidenceId, nextRefutationId>>

deleteHypothesis(id) ==
  LET parentEdges == SetToSeq(ParentIds(hypothesisEdge, id))
  IN IF id \notin DOMAIN hypothesis
     THEN \* hypothesis.delete of a missing row throws: the transaction rolls back
          Rejected(Result("deleteHypothesis", FALSE, "Failed to delete hypothesis"))
     ELSE /\ hypothesisEdge' =
               {e \in hypothesisEdge : ~(e.parentId = id \/ e.childId = id)}
          /\ evidence' = {ev \in evidence : ev.hypothesisId # id}
          /\ refutation' = {r \in refutation : r.hypothesisId # id}
          /\ hypothesisWatcher' = {w \in hypothesisWatcher : w.hypothesisId # id}
          /\ hypothesis' = [h \in DOMAIN hypothesis \ {id} |-> hypothesis[h]]
          /\ last' = [Result("deleteHypothesis", TRUE, "") EXCEPT
                        !.id = id,
                        !.emitted = [i \in 1..Len(parentEdges) |->
                                       Activity(parentEdges[i], "HYPOTHESIS_DELETED")]]
          /\ UNCHANGED <<calls, nextId, nextEvidenceId, nextRefutationId>>

watchHypothesis(hypothesisId, userId) ==
  LET res(ok, error) == Result("watchHypothesis", ok, error)
      row == [hypothesisId |-> hypothesisId, userId |-> userId]
  IN IF row \in hypothesisWatcher THEN Rejected(res(TRUE, ""))
     ELSE IF hypothesisId \notin DOMAIN hypothesis
     THEN Rejected(res(FALSE, "Failed to watch hypothesis"))
     ELSE /\ hypothesisWatcher' = hypothesisWatcher \cup {row}
          /\ last' = res(TRUE, "")
          /\ UNCHANGED <<calls, hypothesis, hypothesisEdge, evidence, refutation,
                         nextId, nextEvidenceId, nextRefutationId>>

unwatchHypothesis(hypothesisId, userId) ==
  /\ hypothesisWatcher' = {w \in hypothesisWatcher :
                             ~(w.hypothesisId = hypothesisId /\ w.userId = userId)}
  /\ last' = Result("unwatchHypothesis", TRUE, "")
  /\ UNCHANGED <<calls, hypothesis, hypothesisEdge, evidence, refutation,
                 nextId, nextEvidenceId, nextRefutationId>>

\* the id lists handed to reorderHypotheses
RECURSIVE SeqsUpTo(_, _)
SeqsUpTo(S, n) ==
  IF n = 0 THEN {<<>>}
  ELSE LET shorter == SeqsUpTo(S, n - 1)
       IN shorter \cup {Append(q, x) : q \in shorter, x \in S}

\* the lists the drag-and-drop view sends: the siblings under p (the roots
\* when p is null) in their new order
SiblingOrders(p) ==
  LET siblings == IF p = Null THEN Roots(hypothesis, hypothesisEdge)
                  ELSE ChildIds(hypothesisEdge, p)
  IN {q \in SeqsUpTo(siblings, Cardinality(siblings)) :
        Len(q) = Cardinality(siblings) /\ Range(q) = siblings}

\* the orders in which a query without orderBy may return the parent edges of
\* a node: every ranking of the ids when some node has several parents
\* (only the parents of a node with several parents are ranked against each
\* other, so the rankings permute those and leave the other ids in place)
RowOrdersOver(S, E) ==
  LET shared == UNION {ParentIds(E, c) : c \in {x \in S : Cardinality(ParentIds(E, x)) > 1}}
  IN {[i \in S |-> IF i \in shared THEN perm[i] ELSE i] : perm \in Permutations(shared)}

RowOrders(E) == RowOrdersOver(Ids, E)

\* the orders in which findMany returns the Hypothesis table
TableOrders == {[i \in Ids |-> i], [i \in Ids |-> MaxHyp + 1 - i]}

\* ---------------------------------------------------------- specifications
\* the structural calls on the graph; new hypotheses get the form's default
\* confidence
DEFAULT_CONFIDENCE == 50

NextGraph ==
  \/ \E st \in Statements : createHypothesis(st, DEFAULT_CONFIDENCE)
  \/ \E p \in Ids, st \in Statements :
       createChildHypothesisAndEdge(p, st, DEFAULT_CONFIDENCE)
  \/ \E h \in Ids, p \in Ids : moveHypothesisToParent(h, p)
  \/ \E p \in Ids \cup {Null}, c \in Ids : linkExistingHypothesis(p, c)
  \/ \E p \in Ids \cup {Null} : \E ids \in SiblingOrders(p) : reorderHypotheses(ids, p)
  \/ \E id \in Ids : deleteHypothesis(id)

SpecGraph == Init /\ [][NextGraph]_vars

\* the calls that write confidence: a small tree is built, then evidence is
\* added, edited and removed, confidence is overridden by hand and recomputed
Next ==
  \/ \E st \in Statements : createHypothesis(st, DEFAULT_CONFIDENCE)
  \/ \E p \in Ids, st \in Statements :
       createChildHypothesisAndEdge(p, st, DEFAULT_CONFIDENCE)
  \/ \E id \in Ids, st \in Statements, c \in UpdateConfidenceInputs :
       updateHypothesis(id, st, c)
  \/ \E id \in Ids, st \in Statements, ai \in ClassifierResults,
        prio \in RowOrders(hypothesisEdge) : addEvidenceSimple(id, st, ai, prio)
  \/ \E id \in Ids, st \in Statements, ai \in ClassifierResults,
        prio \in RowOrders(hypothesisEdge) : addChallengeSimple(id, st, ai, prio)
  \/ \E ev \in EvidenceIds, st \in Statements, ai \in ClassifierResults,
        prio \in RowOrders(hypothesisEdge) : updateEvidence(ev, st, ai, prio)
  \/ \E ev \in EvidenceIds, prio \in RowOrders(hypothesisEdge) : deleteEvidence(ev, prio)
  \/ \E prio \in TableOrders : recalculateAllConfidences(prio)

Spec == Init /\ [][Next]_vars

\* reordering: any list of distinct ids (children or not, known or not) under
\* any parent or at the root
DistinctSeqs(S, n) == {q \in SeqsUpTo(S, n) : Cardinality(Range(q)) = Len(q)}

NextReorder ==
  \/ \E st \in Statements : createHypothesis(st, DEFAULT_CONFIDENCE)
  \/ \E p \in Ids, st \in Statements :
       createChildHypothesisAndEdge(p, st, DEFAULT_CONFIDENCE)
  \/ \E p \in Ids \cup {Null}, c \in Ids : linkExistingHypothesis(p, c)
  \/ \E ids \in DistinctSeqs(Ids, MaxReorderLen), p \in Ids \cup {Null} :
       reorderHypotheses(ids, p)

SpecReorder == Init /\ [][NextReorder]_vars

\* the owned rows: hypotheses get evidence, refutations and watchers, are
\* linked under several parents and deleted
NextStore ==
  \/ \E st \in Statements : createHypothesis(st, DEFAULT_CONFIDENCE)
  \/ \E p \in Ids, c \in Ids : linkExistingHypothesis(p, c)
  \/ \E id \in Ids, st \in Statements : addEvidence(id, "SUPPORTS", 7, st)
  \/ \E id \in Ids, st \in Statements : addRefutation(id, st)
  \/ \E id \in Ids, u \in Users : watchHypothesis(id, u)
  \/ \E id \in Ids : deleteHypothesis(id)

SpecStore == Init /\ [][NextStore]_vars

\* the cascade on multi-parent graphs: CascadeHyp root hypotheses were created
\* (the first with confidence 70, which its evidence does not give, the others
\* with the default) and then linked into an acyclic graph, each parent's
\* children linked in the order of their ids; evidence is then added, edited
\* and removed
CascadeIds == 1..CascadeHyp

EdgesOfPairs(P) ==
  {[parentId |-> pc[1], childId |-> pc[2],
    order |-> Cardinality({q \in P : q[1] = pc[1] /\ q[2] < pc[2]})] : pc \in P}

RECURSIVE ReachUp(_, _, _)
ReachUp(E, frontier, seen) ==
  LET next == UNION {ParentIds(E, x) : x \in frontier} \ seen
  IN IF next = {} THEN seen ELSE ReachUp(E, next, seen \cup next)

\* the ids from which h is reached by following parent -> child edges
AncestorsOf(E, h) == ReachUp(E, {h}, {})

InitCascade ==
  /\ \E P \in SUBSET {pc \in CascadeIds \X CascadeIds : pc[1] # pc[2]} :
       /\ \A h \in CascadeIds : h \notin AncestorsOf(EdgesOfPairs(P), h)
       /\ hypothesisEdge = EdgesOfPairs(P)
  /\ hypothesis = [h \in CascadeIds |->
                     NewRow(IF h = 1 THEN 70 ELSE DEFAULT_CONFIDENCE, h - 1)]
  /\ evidence = {}
  /\ refutation = {}
  /\ hypothesisWatcher = {}
  /\ nextId = CascadeHyp + 1
  /\ nextEvidenceId = 1
  /\ nextRefutationId = 1
  /\ last = Result("init", TRUE, "")
  /\ calls = [p \in Procs |-> NoCall]

NextCascade ==
  \/ \E id \in CascadeIds, ai \in ClassifierResults,
        prio \in RowOrdersOver(CascadeIds, hypothesisEdge) :
       addEvidenceSimple(id, "s", ai, prio)
  \/ \E ev \in EvidenceIds, ai \in ClassifierResults,
        prio \in RowOrdersOver(CascadeIds, hypothesisEdge) :
       updateEvidence(ev, "s", ai, prio)
  \/ \E ev \in EvidenceIds, prio \in RowOrdersOver(CascadeIds, hypothesisEdge) :
       deleteEvidence(ev, prio)

SpecCascade == InitCascade /\ [][NextCascade]_vars

\* ------------------------------------------------------------------ claims
\* the ids reachable from the frontier by following parent -> child edges
RECURSIVE ReachDown(_, _, _)
ReachDown(E, frontier, seen) ==
  LET next == UNION {ChildIds(E, x) : x \in frontier} \ seen
  IN IF next = {} THEN seen ELSE ReachDown(E, next, seen \cup next)

Descendants(E, h) == ReachDown(E, {h}, {})
Ancestors(E, h) == {a \in Ids : h \in Descendants(E, a)}
HasEdge(E, p, c) == \E e \in E : e.parentId = p /\ e.childId = c

\* C1: after any sequence of create, createChild, move, link, reorder and
\* delete calls from the empty store, no hypothesis id reaches itself by
\* following parent -> child edges.
C1_EdgesAcyclic == \A h \in Ids : h \notin Descendants(hypothesisEdge, h)

\* a chain of two edges stands after an accepted move or link
C1_Witness ==
  /\ last.op \in {"moveHypothesisToParent", "linkExistingHypothesis"}
  /\ last.ok
  /\ last.parentId # Null
  /\ \E a \in Ids : HasEdge(hypothesisEdge, a, last.parentId)
  /\ HasEdge(hypothesisEdge, last.parentId, last.id)

\* C2: moveHypothesisToParent(h, p) and linkExistingHypothesis(p, h) with
\* p = h, p a descendant of h, or the edge p -> h present return ok:false with
\* an error message and leave every edge (parentId, childId, order) as it was.
C2_RejectedAttachKeepsEdges ==
  [][\A h \in Ids, p \in Ids :
       ( /\ moveHypothesisToParent(h, p) \/ linkExistingHypothesis(p, h)
         /\ \/ p = h
            \/ p \in Descendants(hypothesisEdge, h)
            \/ HasEdge(hypothesisEdge, p, h) )
       => /\ last'.ok = FALSE
          /\ last'.error # ""
          /\ hypothesisEdge' = hypothesisEdge]_vars

\* with edges A -> B -> C in place an attach was refused as a cycle
C2_Witness ==
  /\ last.op \in {"moveHypothesisToParent", "linkExistingHypothesis"}
  /\ ~last.ok
  /\ last.error \in {"Cannot move: would create a cycle (target is a descendant)",
                     "Cannot link: would create a cycle (target is a descendant)"}
  /\ \E a \in Ids, b \in Ids, c \in Ids :
       /\ HasEdge(hypothesisEdge, a, b)
       /\ HasEdge(hypothesisEdge, b, c)

\* C9: for every parent the order values of its n child edges are exactly
\* 0 .. n-1.
C9_DenseEdgeOrders ==
  \A p \in Ids :
    EdgeOrders(hypothesisEdge, p) = 0 .. (Cardinality(ChildIds(hypothesisEdge, p)) - 1)

EdgesOutside(E, p) == {e \in E : e.parentId # p}
EdgePairs(E) == {<<e.parentId, e.childId>> : e \in E}

\* C10: reorderHypotheses(orderedIds, parentId) with a parent sets the order of
\* the edge parentId -> orderedIds[i] to i for every index i, touching no edge
\* of another parent and no hypothesis row; with parentId null it sets
\* hypothesis.order of orderedIds[i] to i and touches no edge.
C10_ReorderFrame ==
  [][(last'.op = "reorderHypotheses" /\ last'.ok) =>
       LET ids == last'.orderedIds
           p == last'.parentId
       IN IF p # Null
          THEN /\ \A i \in 1..Len(ids) : \A e \in hypothesisEdge' :
                    (e.parentId = p /\ e.childId = ids[i]) => e.order = i - 1
               /\ EdgePairs(hypothesisEdge') = EdgePairs(hypothesisEdge)
               /\ EdgesOutside(hypothesisEdge', p) = EdgesOutside(hypothesisEdge, p)
               /\ hypothesis' = hypothesis
          ELSE /\ \A i \in 1..Len(ids) : hypothesis'[ids[i]].order = i - 1
               /\ DOMAIN hypothesis' = DOMAIN hypothesis
               /\ \A h \in DOMAIN hypothesis \ Range(ids) : hypothesis'[h] = hypothesis[h]
               /\ hypothesisEdge' = hypothesisEdge]_vars

\* two children of one parent were put in the reverse of their creation
\* order while a child of another parent kept its edge
C10_Witness ==
  /\ last.op = "reorderHypotheses"
  /\ last.ok
  /\ last.parentId # Null
  /\ Len(last.orderedIds) = 2
  /\ last.orderedIds[1] > last.orderedIds[2]
  /\ [parentId |-> last.parentId, childId |-> last.orderedIds[1], order |-> 0]
       \in hypothesisEdge
  /\ [parentId |-> last.parentId, childId |-> last.orderedIds[2], order |-> 1]
       \in hypothesisEdge
  /\ EdgesOutside(hypothesisEdge, last.parentId) # {}

\* C8: a successful deleteHypothesis(id) leaves no edge, evidence, refutation
\* or watcher row that references id, removes the row of id and of no other
\* hypothesis, and emits exactly one HYPOTHESIS_DELETED activity for each
\* former parent of id (none for a root).
C8_DeleteCascade ==
  [][(last'.op = "deleteHypothesis" /\ last'.ok) =>
       LET id == last'.id
           formerParents == {e.parentId : e \in {x \in hypothesisEdge : x.childId = id}}
       IN /\ \A e \in hypothesisEdge' : e.parentId # id /\ e.childId # id
          /\ \A ev \in evidence' : ev.hypothesisId # id
          /\ \A r \in refutation' : r.hypothesisId # id
          /\ \A w \in hypothesisWatcher' : w.hypothesisId # id
          /\ id \in DOMAIN hypothesis
          /\ DOMAIN hypothesis' = DOMAIN hypothesis \ {id}
          /\ \A h \in DOMAIN hypothesis' : hypothesis'[h] = hypothesis[h]
          /\ \A i \in 1..Len(last'.emitted) : last'.emitted[i].type = "HYPOTHESIS_DELETED"
          /\ \A q \in Ids :
               Cardinality({i \in 1..Len(last'.emitted) : last'.emitted[i].hypothesisId = q})
                 = IF q \in formerParents THEN 1 ELSE 0]_vars

\* a hypothesis with two parents, an evidence row and a refutation was deleted
C8_Witness ==
  /\ last.op = "deleteHypothesis"
  /\ last.ok
  /\ Len(last.emitted) = 2
  /\ nextEvidenceId > 1 /\ evidence = {}
  /\ nextRefutationId > 1 /\ refutation = {}
  /\ Cardinality(DOMAIN hypothesis) = 2

\* a hypothesis was deleted and its former child is still stored
C8_WitnessChildSurvives ==
  /\ last.op = "deleteHypothesis"
  /\ last.ok
  /\ Len(last.emitted) = 1
  /\ Cardinality(DOMAIN hypothesis) = 2
  /\ hypothesisEdge = {}

EvidenceCalls == {"addEvidenceSimple", "addChallengeSimple", "updateEvidence",
                  "deleteEvidence"}

\* C3: a hypothesis whose confidenceIsManual is true keeps its stored
\* confidence through every call except updateHypothesis: the cascade and the
\* batch recalculation never write it.
C3_ManualOnlyByUpdate ==
  [][\A h \in DOMAIN hypothesis \cap DOMAIN hypothesis' :
       (hypothesis[h].confidenceIsManual
          /\ hypothesis'[h].confidence # hypothesis[h].confidence)
       => last'.op = "updateHypothesis"]_vars

\* C4 as stated: an evidence call on a manual hypothesis leaves its confidence
\* as it was, runs no cascade, and reports no cascade result and
\* skippedAutoCalc true.
C4_AsStated ==
  [][(last'.op \in EvidenceCalls /\ last'.ok
        /\ hypothesis[last'.id].confidenceIsManual)
     => /\ hypothesis'[last'.id].confidence = hypothesis[last'.id].confidence
        /\ ~last'.cascadeRan
        /\ last'.cascadeResult # "value"
        /\ last'.skippedAutoCalc = "true"]_vars

\* C4: an evidence call on a manual hypothesis leaves its confidence (and every
\* other confidence) as it was and runs no cascade; addEvidenceSimple,
\* addChallengeSimple and updateEvidence report skippedAutoCalc true and no
\* cascade result, deleteEvidence returns ok:true without data.
C4_ManualSticky ==
  [][(last'.op \in EvidenceCalls /\ last'.ok
        /\ hypothesis[last'.id].confidenceIsManual)
     => /\ hypothesis' = hypothesis
        /\ ~last'.cascadeRan
        /\ last'.updated = <<>>
        /\ last'.cascadeResult =
             (IF last'.op \in {"addEvidenceSimple", "addChallengeSimple"}
              THEN "null" ELSE "none")
        /\ last'.skippedAutoCalc =
             (IF last'.op = "deleteEvidence" THEN "absent" ELSE "true")]_vars

\* evidence was added to a hypothesis whose confidence had been set by hand to
\* a value its evidence does not give
C4_Witness ==
  /\ last.op \in {"addEvidenceSimple", "addChallengeSimple"}
  /\ last.ok
  /\ last.skippedAutoCalc = "true"
  /\ hypothesis[last.id].confidenceIsManual
  /\ hypothesis[last.id].confidence = 90
  /\ \E ev \in evidence : ev.hypothesisId = last.id

\* C7: root H1 and child H2 both at 50 and without evidence; addEvidenceSimple
\* on H2 classified SUPPORTS / 5 stores 65 for H2 and 58 for H1 and returns the
\* updates {H2: 50 -> 65} then {H1: 50 -> 58}.
C7_EndToEnd ==
  [][( /\ DOMAIN hypothesis = {1, 2}
       /\ hypothesis[1].confidence = 50 /\ hypothesis[2].confidence = 50
       /\ ~hypothesis[2].confidenceIsManual
       /\ EdgePairs(hypothesisEdge) = {<<1, 2>>}
       /\ evidence = {}
       /\ last'.op = "addEvidenceSimple" /\ last'.ok /\ last'.id = 2
       /\ \E ev \in evidence' : ev.direction = "SUPPORTS" /\ ev.strength = 5 )
     => /\ hypothesis'[2].confidence = 65
        /\ hypothesis'[1].confidence = 58
        /\ last'.updated = << [id |-> 2, old |-> 50, new |-> 65],
                              [id |-> 1, old |-> 50, new |-> 58] >>]_vars

\* the scenario ran: create H1, create H2 under H1, add the evidence to H2
C7_Witness ==
  /\ last.op = "addEvidenceSimple"
  /\ last.id = 2
  /\ DOMAIN hypothesis = {1, 2}
  /\ EdgePairs(hypothesisEdge) = {<<1, 2>>}
  /\ evidence = {[id |-> 1, hypothesisId |-> 2, direction |-> "SUPPORTS", strength |-> 5]}
  /\ ~hypothesis[1].confidenceIsManual
  /\ last.updated = << [id |-> 2, old |-> 50, new |-> 65],
                       [id |-> 1, old |-> 50, new |-> 58] >>

NoDuplicates(q) == Cardinality(Range(q)) = Len(q)
UpdatedIds(result) == [i \in 1..Len(result.updated) |-> result.updated[i].id]

\* q is p with some entries left out
IsSubsequence(q, p) ==
  /\ Range(q) \subseteq Range(p)
  /\ \A i \in 1..Len(q), j \in 1..Len(q) :
       i < j => (CHOOSE k \in 1..Len(p) : p[k] = q[i]) < (CHOOSE k \in 1..Len(p) : p[k] = q[j])

IsDiamond(E, d, p1, p2, r) ==
  /\ Cardinality({d, p1, p2, r}) = 4
  /\ EdgePairs(E) = {<<r, p1>>, <<r, p2>>, <<p1, d>>, <<p2, d>>}

\* C5: one run of the cascade recomputes every node at most once and lists no
\* id twice in its change list, the changes being listed in the order the
\* nodes were recomputed; on the diamond D -> {P1, P2} -> R a run started at D
\* takes D first, then P1 and P2, then R once.
C5_CascadeOnce ==
  last.cascadeRan =>
    /\ NoDuplicates(last.visited)
    /\ NoDuplicates(UpdatedIds(last))
    /\ IsSubsequence(UpdatedIds(last), last.visited)
    /\ last.visited[1] = last.id
    /\ \A d \in CascadeIds, p1 \in CascadeIds, p2 \in CascadeIds, r \in CascadeIds :
         (IsDiamond(hypothesisEdge, d, p1, p2, r) /\ last.id = d)
         => last.visited \in {<<d, p1, p2, r>>, <<d, p2, p1, r>>}

\* on the diamond the evidence of D changed and all four nodes were updated
C5_Witness ==
  /\ last.cascadeRan
  /\ \E d \in CascadeIds, p1 \in CascadeIds, p2 \in CascadeIds, r \in CascadeIds :
       /\ IsDiamond(hypothesisEdge, d, p1, p2, r)
       /\ UpdatedIds(last) = <<d, p1, p2, r>>

\* C6: a cascade started at a node writes the confidence of that node and of
\* its ancestors only, and lists only those in its change list.
C6_CascadeFrame ==
  [][last'.cascadeRan =>
       LET onPath == {last'.id} \cup AncestorsOf(hypothesisEdge, last'.id)
       IN /\ \A h \in DOMAIN hypothesis : hypothesis'[h] # hypothesis[h] => h \in onPath
          /\ \A i \in 1..Len(last'.updated) : last'.updated[i].id \in onPath]_vars

\* the start has a parent, a sibling and a child; start and parent changed
C6_Witness ==
  /\ last.cascadeRan
  /\ Len(last.updated) = 2
  /\ \E p \in CascadeIds, b \in CascadeIds, c \in CascadeIds :
       /\ Cardinality({p, b, c, last.id}) = 4
       /\ EdgePairs(hypothesisEdge) = {<<p, last.id>>, <<p, b>>, <<last.id, c>>}

\* ------------------------------------------------- the range of confidences
\* a hypothesis that collected MaxRangeEvidence strong items through
\* addEvidence (which stores without recomputing); hypotheses are then created
\* and edited with confidences outside 0..100, and the recalculations run
MaxRangeEvidence == 5
\* the evidence item the user deletes
RangeEvidenceIds == {1}
WildConfidenceInputs == {-20, 130}

InitRange ==
  /\ hypothesis = (1 :> NewRow(DEFAULT_CONFIDENCE, 0))
  /\ hypothesisEdge = {}
  /\ \E k \in {MaxRangeEvidence}, d \in {"SUPPORTS", "REFUTES"} :
       /\ evidence = {[id |-> i, hypothesisId |-> 1, direction |-> d, strength |-> 5] :
                        i \in 1..k}
       /\ nextEvidenceId = k + 1
  /\ refutation = {}
  /\ hypothesisWatcher = {}
  /\ nextId = 2
  /\ nextRefutationId = 1
  /\ last = Result("init", TRUE, "")
  /\ calls = [p \in Procs |-> NoCall]

NextRange ==
  \/ \E c \in WildConfidenceInputs : createHypothesis("s", c)
  \/ \E p \in Ids, c \in WildConfidenceInputs : createChildHypothesisAndEdge(p, "s", c)
  \/ \E id \in Ids, c \in WildConfidenceInputs : updateHypothesis(id, "s", c)
  \/ \E id \in Ids : recalculateConfidence(id)
  \/ \E prio \in TableOrders : recalculateAllConfidences(prio)
  \/ \E ev \in RangeEvidenceIds, prio \in RowOrders(hypothesisEdge) : deleteEvidence(ev, prio)

SpecRange == InitRange /\ [][NextRange]_vars

\* C11: every stored confidence is an integer in 0..100, whatever confidence
\* is supplied on create and update and whatever evidence and children the
\* recalculations read.
C11_ConfidenceInRange ==
  \A h \in DOMAIN hypothesis : hypothesis[h].confidence \in 0..100

\* a recalculation over at least four SUPPORTS / 5 items (50 + 60 or more)
\* stored 100, and a second hypothesis is in the store
C11_Witness ==
  /\ last.op = "recalculateConfidence"
  /\ last.ok
  /\ hypothesis[last.id].confidence = 100
  /\ Cardinality({ev \in evidence : ev.hypothesisId = last.id}) >= 4
  /\ nextId > 2

\* ------------------------------------------------------- concurrent requests
\* Two requests are served at once. Every await of a handler is a point where
\* the other request may run; a step below is one query (or one transaction)
\* of the handler, and pc names the query the call runs next.
Finish(p, result) ==
  /\ last' = result
  /\ calls' = [calls EXCEPT ![p] = NoCall]

Goto(p, pc) ==
  /\ calls' = [calls EXCEPT ![p].pc = pc]
  /\ UNCHANGED last

StoreUnchanged ==
  UNCHANGED <<hypothesis, hypothesisEdge, evidence, refutation, hypothesisWatcher,
              nextId, nextEvidenceId, nextRefutationId>>

\* linkExistingHypothesis with a parent: the self check and isDescendant
linkIsDescendant(p, parentId, childId) ==
  LET res(ok, error) == Result("linkExistingHypothesis", ok, error)
  IN /\ calls[p].pc = "idle"
     /\ StoreUnchanged
     /\ IF childId = parentId
        THEN Finish(p, res(FALSE, "Cannot make hypothesis a child of itself"))
        ELSE IF isDescendant(hypothesisEdge, parentId, childId)
        THEN Finish(p, res(FALSE,
                           "Cannot link: would create a cycle (target is a descendant)"))
        ELSE /\ calls' = [calls EXCEPT ![p] = [pc |-> "linkFindFirst",
                                               parentId |-> parentId,
                                               childId |-> childId,
                                               maxOrder |-> -1]]
             /\ UNCHANGED last

\* hypothesisEdge.findFirst: the existing-edge check
linkFindFirst(p) ==
  /\ calls[p].pc = "linkFindFirst"
  /\ StoreUnchanged
  /\ IF \E e \in hypothesisEdge :
          e.parentId = calls[p].parentId /\ e.childId = calls[p].childId
     THEN Finish(p, Result("linkExistingHypothesis", FALSE,
                           "This relationship already exists"))
     ELSE Goto(p, "linkAggregate")

\* hypothesisEdge.aggregate: the largest order under the parent
linkAggregate(p) ==
  /\ calls[p].pc = "linkAggregate"
  /\ StoreUnchanged
  /\ calls' = [calls EXCEPT
                 ![p].pc = "linkCreate",
                 ![p].maxOrder = MaxOrDefault(EdgeOrders(hypothesisEdge,
                                                         calls[p].parentId), -1)]
  /\ UNCHANGED last

\* hypothesisEdge.create (unique on (parentId, childId), foreign keys on both
\* ids), then markContentUpdated and the activity
linkCreate(p) ==
  LET res(ok, error) == Result("linkExistingHypothesis", ok, error)
      parentId == calls[p].parentId
      childId == calls[p].childId
      E2 == hypothesisEdge \cup {[parentId |-> parentId, childId |-> childId,
                                  order |-> calls[p].maxOrder + 1]}
  IN /\ calls[p].pc = "linkCreate"
     /\ UNCHANGED <<hypothesis, evidence, refutation, hypothesisWatcher,
                    nextId, nextEvidenceId, nextRefutationId>>
     /\ IF \/ \E e \in hypothesisEdge : e.parentId = parentId /\ e.childId = childId
           \/ parentId \notin DOMAIN hypothesis
           \/ childId \notin DOMAIN hypothesis
        THEN /\ Finish(p, res(FALSE, "Failed to link hypothesis"))
             /\ UNCHANGED hypothesisEdge
        ELSE /\ calls[p].maxOrder + 1 <= MaxOrder
             /\ hypothesisEdge' = E2
             /\ Finish(p, [res(TRUE, "") EXCEPT
                             !.id = childId, !.parentId = parentId,
                             !.touched = markContentUpdated(E2, parentId),
                             !.emitted = <<Activity(parentId, "CHILD_ADDED")>>])

\* moveHypothesisToParent: the self check and isDescendant
moveIsDescendant(p, hypothesisId, newParentId) ==
  LET res(ok, error) == Result("moveHypothesisToParent", ok, error)
  IN /\ calls[p].pc = "idle"
     /\ StoreUnchanged
     /\ IF hypothesisId = newParentId
        THEN Finish(p, res(FALSE, "Cannot make hypothesis a child of itself"))
        ELSE IF isDescendant(hypothesisEdge, newParentId, hypothesisId)
        THEN Finish(p, res(FALSE,
                           "Cannot move: would create a cycle (target is a descendant)"))
        ELSE /\ calls' = [calls EXCEPT ![p] = [pc |-> "moveFindFirst",
                                               parentId |-> newParentId,
                                               childId |-> hypothesisId,
                                               maxOrder |-> -1]]
             /\ UNCHANGED last

moveFindFirst(p) ==
  /\ calls[p].pc = "moveFindFirst"
  /\ StoreUnchanged
  /\ IF \E e \in hypothesisEdge :
          e.parentId = calls[p].parentId /\ e.childId = calls[p].childId
     THEN Finish(p, Result("moveHypothesisToParent", FALSE,
                           "This relationship already exists"))
     ELSE Goto(p, "moveTransaction")

\* the transaction of moveHypothesisToParent, run without another request in
\* between: deleteMany, aggregate, create
moveTransaction(p) ==
  LET res(ok, error) == Result("moveHypothesisToParent", ok, error)
      newParentId == calls[p].parentId
      hypothesisId == calls[p].childId
      E1 == {e \in hypothesisEdge : e.childId # hypothesisId}
      edge == NewEdge(E1, newParentId, hypothesisId)
  IN /\ calls[p].pc = "moveTransaction"
     /\ UNCHANGED <<hypothesis, evidence, refutation, hypothesisWatcher,
                    nextId, nextEvidenceId, nextRefutationId>>
     /\ IF hypothesisId \notin DOMAIN hypothesis \/ newParentId \notin DOMAIN hypothesis
        THEN /\ Finish(p, res(FALSE, "Failed to move hypothesis"))
             /\ UNCHANGED hypothesisEdge
        ELSE /\ edge.order <= MaxOrder
             /\ hypothesisEdge' = E1 \cup {edge}
             /\ Finish(p, [res(TRUE, "") EXCEPT
                             !.id = hypothesisId, !.parentId = newParentId])

NextLinkRace ==
  \/ createHypothesis("s", DEFAULT_CONFIDENCE)
  \/ \E p \in Procs, parentId \in Ids, childId \in Ids :
       linkIsDescendant(p, parentId, childId)
  \/ \E p \in Procs : linkFindFirst(p)
  \/ \E p \in Procs : linkAggregate(p)
  \/ \E p \in Procs : linkCreate(p)
  \/ \E p \in Procs, h \in Ids, newParentId \in Ids : moveIsDescendant(p, h, newParentId)
  \/ \E p \in Procs : moveFindFirst(p)
  \/ \E p \in Procs : moveTransaction(p)

SpecLinkRace == Init /\ [][NextLinkRace]_vars

\* C12: with two link / move calls interleaved, whenever no call is in flight
\* the edge set has no cycle.
C12_ConcurrentAcyclic ==
  (\A p \in Procs : calls[p].pc = "idle")
    => \A h \in DOMAIN hypothesis : h \notin Descendants(hypothesisEdge, h)

\* createChildHypothesisAndEdge: the statement check, then the first query of
\* the transaction, hypothesisEdge.findMany of the parent's edges. The
\* transaction runs at the isolation level of the database (read committed):
\* the query sees what is committed and takes no lock.
createChildFindMany(p, parentId, statement) ==
  /\ calls[p].pc = "idle"
  /\ StoreUnchanged
  /\ IF trim(statement) = ""
     THEN Finish(p, Result("createChildHypothesisAndEdge", FALSE, "Statement is required"))
     ELSE /\ calls' = [calls EXCEPT ![p] =
                         [pc |-> "createChildCreate",
                          parentId |-> parentId,
                          childId |-> Null,
                          maxOrder |-> MaxOrDefault(EdgeOrders(hypothesisEdge, parentId),
                                                    -1)]]
          /\ UNCHANGED last

\* the rest of the transaction, hypothesis.create and hypothesisEdge.create,
\* and its commit; then markContentUpdated and the activities
createChildCreate(p, confidence) ==
  LET res(ok, error) == Result("createChildHypothesisAndEdge", ok, error)
      parentId == calls[p].parentId
      E2 == hypothesisEdge \cup
              {[parentId |-> parentId, childId |-> nextId,
                order |-> calls[p].maxOrder + 1]}
  IN /\ calls[p].pc = "createChildCreate"
     /\ UNCHANGED <<evidence, refutation, hypothesisWatcher,
                    nextEvidenceId, nextRefutationId>>
     /\ IF parentId \notin DOMAIN hypothesis
        THEN /\ Finish(p, res(FALSE, "Failed to create child hypothesis"))
             /\ UNCHANGED <<hypothesis, hypothesisEdge, nextId>>
        ELSE /\ nextId <= MaxHyp
             /\ calls[p].maxOrder + 1 <= MaxOrder
             /\ hypothesis' = (nextId :> NewRow(confidence, 0)) @@ hypothesis
             /\ hypothesisEdge' = E2
             /\ nextId' = nextId + 1
             /\ Finish(p, [res(TRUE, "") EXCEPT
                             !.parentId = parentId,
                             !.newId = nextId,
                             !.touched = markContentUpdated(E2, parentId),
                             !.emitted = <<Activity(nextId, "HYPOTHESIS_CREATED"),
                                           Activity(parentId, "CHILD_ADDED")>>])

NextCreateRace ==
  \/ \E c \in UpdateConfidenceInputs : createHypothesis("s", c)
  \/ \E p \in Procs, parentId \in Ids, st \in Statements :
       createChildFindMany(p, parentId, st)
  \/ \E p \in Procs, c \in UpdateConfidenceInputs : createChildCreate(p, c)

SpecCreateRace == Init /\ [][NextCreateRace]_vars

\* C13: when two createChildHypothesisAndEdge calls on the same parent have
\* both committed, the two new edges have different orders.
C13_ConcurrentCreateOrders ==
  (\A p \in Procs : calls[p].pc = "idle")
    => \A e1 \in hypothesisEdge, e2 \in hypothesisEdge :
         (e1.parentId = e2.parentId /\ e1.childId # e2.childId)
           => e1.order # e2.order

\* --------------------------------------------------- failing store queries
\* A query of the store may throw (connection lost, timeout). The handlers
\* catch every error and return ok:false; the writes made before the failing
\* query were committed on their own (they are not in a transaction).
\* failAt names the call inside the handler whose query throws.
FailurePoints == {"markContentUpdated", "recalculateConfidenceWithCascade"}

CascadeReached(hypothesisId, failAt) ==
  failAt = "recalculateConfidenceWithCascade"
    => ~hypothesis[hypothesisId].confidenceIsManual

\* addEvidenceSimple: evidence.create succeeds, a later query throws
addEvidenceSimpleThrows(hypothesisId, aiResult, failAt) ==
  /\ hypothesisId \in DOMAIN hypothesis
  /\ CascadeReached(hypothesisId, failAt)
  /\ nextEvidenceId <= MaxEvidence
  /\ LET manual == hypothesis[hypothesisId].confidenceIsManual
         classification == IF manual THEN [direction |-> "SUPPORTS", strength |-> 3]
                           ELSE aiResult
     IN evidence' = evidence \cup
                      {[id |-> nextEvidenceId, hypothesisId |-> hypothesisId,
                        direction |-> classification.direction,
                        strength |-> classification.strength]}
  /\ nextEvidenceId' = nextEvidenceId + 1
  /\ last' = Result("addEvidenceSimple", FALSE, "Failed to add evidence")
  /\ UNCHANGED <<calls, hypothesis, hypothesisEdge, refutation, hypothesisWatcher,
                 nextId, nextRefutationId>>

\* updateEvidence: evidence.update succeeds, a later query throws
updateEvidenceThrows(evidenceId, aiResult, failAt) ==
  /\ \E ev \in evidence : ev.id = evidenceId
  /\ LET row == CHOOSE ev \in evidence : ev.id = evidenceId
         manual == hypothesis[row.hypothesisId].confidenceIsManual
         classification == IF manual
                           THEN [direction |-> row.direction, strength |-> row.strength]
                           ELSE aiResult
     IN /\ CascadeReached(row.hypothesisId, failAt)
        /\ evidence' = (evidence \ {row}) \cup
                         {[row EXCEPT !.direction = classification.direction,
                                      !.strength = classification.strength]}
  /\ last' = Result("updateEvidence", FALSE, "Failed to update evidence")
  /\ UNCHANGED <<calls, hypothesis, hypothesisEdge, refutation, hypothesisWatcher,
                 nextId, nextEvidenceId, nextRefutationId>>

\* deleteEvidence: evidence.delete succeeds, a later query throws
deleteEvidenceThrows(evidenceId, failAt) ==
  /\ \E ev \in evidence : ev.id = evidenceId
  /\ LET row == CHOOSE ev \in evidence : ev.id = evidenceId
     IN /\ CascadeReached(row.hypothesisId, failAt)
        /\ evidence' = evidence \ {row}
  /\ last' = Result("deleteEvidence", FALSE, "Failed to delete evidence")
  /\ UNCHANGED <<calls, hypothesis, hypothesisEdge, refutation, hypothesisWatcher,
                 nextId, nextEvidenceId, nextRefutationId>>

\* linkExistingHypothesis: hypothesisEdge.create succeeds, markContentUpdated
\* throws
linkExistingHypothesisThrows(parentId, childId) ==
  LET edge == NewEdge(hypothesisEdge, parentId, childId)
  IN /\ childId # parentId
     /\ ~isDescendant(hypothesisEdge, parentId, childId)
     /\ ~\E e \in hypothesisEdge : e.parentId = parentId /\ e.childId = childId
     /\ childId \in DOMAIN hypothesis
     /\ parentId \in DOMAIN hypothesis
     /\ edge.order <= MaxOrder
     /\ hypothesisEdge' = hypothesisEdge \cup {edge}
     /\ last' = Result("linkExistingHypothesis", FALSE, "Failed to link hypothesis")
     /\ UNCHANGED <<calls, hypothesis, evidence, refutation, hypothesisWatcher,
                    nextId, nextEvidenceId, nextRefutationId>>

NextFault ==
  \/ createHypothesis("s", DEFAULT_CONFIDENCE)
  \/ \E parentId \in Ids, childId \in Ids : linkExistingHypothesis(parentId, childId)
  \/ \E parentId \in Ids, childId \in Ids : linkExistingHypothesisThrows(parentId, childId)
  \/ \E id \in Ids, ai \in ClassifierResults, prio \in RowOrders(hypothesisEdge) :
       addEvidenceSimple(id, "s", ai, prio)
  \/ \E id \in Ids, ai \in ClassifierResults, failAt \in FailurePoints :
       addEvidenceSimpleThrows(id, ai, failAt)
  \/ \E ev \in EvidenceIds, ai \in ClassifierResults, failAt \in FailurePoints :
       updateEvidenceThrows(ev, ai, failAt)
  \/ \E ev \in EvidenceIds, failAt \in FailurePoints : deleteEvidenceThrows(ev, failAt)
  \/ \E orderedIds \in DistinctSeqs(Ids, MaxReorderLen) :
       reorderHypotheses(orderedIds, Null)

SpecFault == Init /\ [][NextFault]_vars

\* C14: a call that returns ok:false leaves every persisted row as it was.
C14_AllOrNothing ==
  [][~last'.ok =>
       UNCHANGED <<hypothesis, hypothesisEdge, evidence, refutation,
                   hypothesisWatcher>>]_vars

\* ------------------------------------------------ the calculator on its own
\* calls of the two pure functions of the confidence library; last holds the
\* arguments and the value returned. The functions keep no state, so one call
\* from the initial state stands for a call at any time.
MaxListLen == 3
MaxRepeat == 6
StrengthInputs == {0, 1, 3, 5, 8}
EvidenceItems == [direction : Directions, strength : StrengthInputs]
\* every short list, and the lists that repeat one item up to MaxRepeat times
EvidenceLists ==
  SeqsUpTo(EvidenceItems, MaxListLen)
    \cup {[i \in 1..k |-> item] : k \in 0..MaxRepeat, item \in EvidenceItems}
OwnConfidenceInputs == {-20, 0, 50, 80, 100, 130}
ChildConfidenceInputs == {0, 20, 50, 65, 100}

callCalculateConfidence(evidenceList) ==
  /\ last.op = "init"
  /\ last' = [op |-> "calculateConfidence", evidenceList |-> evidenceList,
              result |-> calculateConfidence(evidenceList)]
  /\ UNCHANGED <<calls>>
  /\ StoreUnchanged

callCalculateCascadingConfidence(ownConfidence, childrenConfidences) ==
  /\ last.op = "init"
  /\ last' = [op |-> "calculateCascadingConfidence",
              ownConfidence |-> ownConfidence,
              childrenConfidences |-> childrenConfidences,
              result |-> calculateCascadingConfidence(ownConfidence,
                                                      childrenConfidences)]
  /\ UNCHANGED <<calls>>
  /\ StoreUnchanged

NextCalculator ==
  \/ \E evidenceList \in EvidenceLists : callCalculateConfidence(evidenceList)
  \/ \E own \in OwnConfidenceInputs, children \in SeqsUpTo(ChildConfidenceInputs, 3) :
       callCalculateCascadingConfidence(own, children)

SpecCalculator == Init /\ [][NextCalculator]_vars

\* twice the weight the specification gives a direction
StatedWeight2(direction) ==
  IF direction = "SUPPORTS" THEN 2
  ELSE IF direction = "WEAKLY_SUPPORTS" THEN 1
  ELSE IF direction = "NEUTRAL" THEN 0
  ELSE IF direction = "WEAKLY_REFUTES" THEN -1
  ELSE -2

\* twice 50 + the sum of weight * clamp(strength, 1, 5) * 3, clamped to [0, 100]
RECURSIVE StatedScore2(_)
StatedScore2(list) ==
  IF list = <<>> THEN 100
  ELSE LET s == Head(list).strength
           counted == IF s < 1 THEN 1 ELSE IF s > 5 THEN 5 ELSE s
       IN StatedWeight2(Head(list).direction) * counted * 3 + StatedScore2(Tail(list))

StatedClamped2(list) ==
  LET x == StatedScore2(list) IN IF x < 0 THEN 0 ELSE IF x > 200 THEN 200 ELSE x

\* r is half2 / 2 rounded to the nearest integer, halves up
IsRoundOfHalf(r, half2) == 2 * r - 1 <= half2 /\ half2 < 2 * r + 1

Repeat(item, k) == [i \in 1..k |-> item]
Item(direction, strength) == [direction |-> direction, strength |-> strength]

\* C15: calculateConfidence returns 50 for the empty list and otherwise
\* round(clamp(50 + sum of weight * clamp(strength, 1, 5) * 3, 0, 100)), halves
\* up; the result is in 0..100, a strength above 5 counts as 5, five
\* SUPPORTS(5) give 100 and five REFUTES(5) give 0.
C15_CalculateConfidence ==
  last.op = "calculateConfidence" =>
    LET list == last.evidenceList
        capped == [i \in 1..Len(list) |->
                     [list[i] EXCEPT !.strength = IF @ > 5 THEN 5 ELSE @]]
    IN /\ list = <<>> => last.result = 50
       /\ list # <<>> => IsRoundOfHalf(last.result, StatedClamped2(list))
       /\ last.result \in 0..100
       /\ last.result = calculateConfidence(capped)
       /\ list = Repeat(Item("SUPPORTS", 5), 5) => last.result = 100
       /\ list = Repeat(Item("REFUTES", 5), 5) => last.result = 0
       /\ list = <<Item("WEAKLY_SUPPORTS", 3)>> => last.result = 55
       /\ list = <<Item("WEAKLY_REFUTES", 3)>> => last.result = 46

\* the call with five SUPPORTS(5) returned 100
C15_Witness ==
  /\ last.op = "calculateConfidence"
  /\ last.evidenceList = Repeat(Item("SUPPORTS", 5), 5)
  /\ last.result = 100

\* C16: calculateCascadingConfidence returns own unchanged when there are no
\* children; otherwise the average of own and the children, each with the same
\* weight, rounded halves up and clamped to 0..100: (50,[50]) gives 50,
\* (80,[20]) gives 50 and (50,[65]) gives 58.
C16_CalculateCascadingConfidence ==
  last.op = "calculateCascadingConfidence" =>
    LET own == last.ownConfidence
        children == last.childrenConfidences
        n == 1 + Len(children)
        sum == own + SumSeq(children)
    IN /\ children = <<>> => last.result = own
       /\ children # <<>> =>
            \E q \in -100..200 :
              /\ 2 * n * q - n <= 2 * sum
              /\ 2 * sum < 2 * n * q + n
              /\ last.result = IF q < 0 THEN 0 ELSE IF q > 100 THEN 100 ELSE q
       /\ (own = 50 /\ children = <<50>>) => last.result = 50
       /\ (own = 80 /\ children = <<20>>) => last.result = 50
       /\ (own = 50 /\ children = <<65>>) => last.result = 58

\* the call (50, [65]) returned 58: 57.5 rounded up
C16_Witness ==
  /\ last.op = "calculateCascadingConfidence"
  /\ last.ownConfidence = 50
  /\ last.childrenConfidences = <<65>>
  /\ last.result = 58

\* ------------------------------------------------------------------- tags
\* a string is the sequence of its characters
TagAlphabet == {"A", "a", "B", " ", ","}
MaxTagInputLen == 6
ExampleTagInput == <<"A", ",", " ", "a", ",", " ", "B", ",", " ", "A">>
TagInputs == SeqsUpTo(TagAlphabet, MaxTagInputLen) \cup {ExampleTagInput}

\* String.prototype.split(",")
RECURSIVE splitLoop(_, _, _)
splitLoop(chars, current, out) ==
  IF chars = <<>> THEN Append(out, current)
  ELSE IF Head(chars) = ","
  THEN splitLoop(Tail(chars), <<>>, Append(out, current))
  ELSE splitLoop(Tail(chars), Append(current, Head(chars)), out)

split(chars) == splitLoop(chars, <<>>, <<>>)

\* String.prototype.trim()
RECURSIVE trimStart(_)
trimStart(chars) ==
  IF chars # <<>> /\ Head(chars) = " " THEN trimStart(Tail(chars)) ELSE chars

RECURSIVE trimEnd(_)
trimEnd(chars) ==
  IF chars # <<>> /\ chars[Len(chars)] = " "
  THEN trimEnd(SubSeq(chars, 1, Len(chars) - 1)) ELSE chars

trimTag(chars) == trimEnd(trimStart(chars))

\* String.prototype.toLowerCase()
toLowerCase(chars) ==
  [i \in 1..Len(chars) |->
     IF chars[i] = "A" THEN "a" ELSE IF chars[i] = "B" THEN "b" ELSE chars[i]]

\* the second filter: a tag passes when its lower case was not seen
RECURSIVE filterSeen(_, _, _)
filterSeen(tags, seen, out) ==
  IF tags = <<>> THEN out
  ELSE LET lower == toLowerCase(Head(tags))
       IN IF lower \in seen THEN filterSeen(Tail(tags), seen, out)
          ELSE filterSeen(Tail(tags), seen \cup {lower}, Append(out, Head(tags)))

\* variant: the seen set holds the tags as written
RECURSIVE filterSeenExact(_, _, _)
filterSeenExact(tags, seen, out) ==
  IF tags = <<>> THEN out
  ELSE IF Head(tags) \in seen THEN filterSeenExact(Tail(tags), seen, out)
  ELSE filterSeenExact(Tail(tags), seen \cup {Head(tags)}, Append(out, Head(tags)))

parseTagsCaseSensitive(tagsInput) ==
  LET entries == split(tagsInput)
      trimmed == [i \in 1..Len(entries) |-> trimTag(entries[i])]
      nonEmpty == SelectSeq(trimmed, LAMBDA t : Len(t) > 0)
  IN filterSeenExact(nonEmpty, {}, <<>>)

parseTags(tagsInput) ==
  LET entries == split(tagsInput)
      trimmed == [i \in 1..Len(entries) |-> trimTag(entries[i])]
      nonEmpty == SelectSeq(trimmed, LAMBDA t : Len(t) > 0)
  IN filterSeen(nonEmpty, {}, <<>>)

\* the tags a create or update stores for the tag string it is given
callParseTags(tagsInput) ==
  /\ last.op = "init"
  /\ last' = [op |-> "parseTags", tagsInput |-> tagsInput,
              result |-> parseTags(tagsInput)]
  /\ UNCHANGED <<calls>>
  /\ StoreUnchanged

NextTags == \E tagsInput \in TagInputs : callParseTags(tagsInput)

SpecTags == Init /\ [][NextTags]_vars

\* the entries of a comma-delimited string, by the positions of its commas
StatedEntries(input) ==
  LET commas == SetToSeq({i \in 1..Len(input) : input[i] = ","})
      cut == <<0>> \o commas \o <<Len(input) + 1>>
  IN [k \in 1..(Len(cut) - 1) |-> SubSeq(input, cut[k] + 1, cut[k + 1] - 1)]

\* an entry without the spaces before its first and after its last other
\* character
StatedTrimmed(entry) ==
  LET solid == {i \in 1..Len(entry) : entry[i] # " "}
  IN IF solid = {} THEN <<>>
     ELSE SubSeq(entry, CHOOSE i \in solid : \A j \in solid : i <= j,
                        CHOOSE i \in solid : \A j \in solid : j <= i)

SameIgnoringCase(t, u) ==
  /\ Len(t) = Len(u)
  /\ \A i \in 1..Len(t) :
       \/ t[i] = u[i]
       \/ {t[i], u[i]} = {"A", "a"}

StatedTags(input) ==
  LET entries == StatedEntries(input)
      trimmed == [k \in 1..Len(entries) |-> StatedTrimmed(entries[k])]
      kept == {k \in 1..Len(trimmed) :
                 /\ trimmed[k] # <<>>
                 /\ \A j \in 1..(k - 1) : ~SameIgnoringCase(trimmed[j], trimmed[k])}
      order == SetToSeq(kept)
  IN [i \in 1..Len(order) |-> trimmed[order[i]]]

\* C17: the stored tags are the trimmed non-empty entries of the string in
\* input order without every entry that equals an earlier one ignoring case
\* (first casing kept); "A, a, B, A" gives ["A", "B"]; no two stored tags are
\* equal ignoring case.
C17_ParseTags ==
  last.op = "parseTags" =>
    /\ last.result = StatedTags(last.tagsInput)
    /\ \A i \in 1..Len(last.result), j \in 1..Len(last.result) :
         i # j => ~SameIgnoringCase(last.result[i], last.result[j])
    /\ last.tagsInput = ExampleTagInput => last.result = << <<"A">>, <<"B">> >>

\* the example string was parsed
C17_Witness ==
  /\ last.op = "parseTags"
  /\ last.tagsInput = ExampleTagInput
  /\ last.result = << <<"A">>, <<"B">> >>

\* ------------------------------------------------------ the manual flag
\* every operation that writes a Hypothesis row, with confidences supplied
\* inside and outside 0..100
ManualConfidenceInputs == {50, 130}

NextManual ==
  \/ createHypothesis("s", DEFAULT_CONFIDENCE)
  \/ \E parentId \in Ids : createChildHypothesisAndEdge(parentId, "s", DEFAULT_CONFIDENCE)
  \/ \E id \in Ids, c \in ManualConfidenceInputs : updateHypothesis(id, "s", c)
  \/ \E id \in Ids, prio \in RowOrders(hypothesisEdge) :
       addEvidenceSimple(id, "s", [direction |-> "SUPPORTS", strength |-> 5], prio)
  \/ \E id \in Ids : recalculateConfidence(id)
  \/ \E prio \in TableOrders : recalculateAllConfidences(prio)
  \/ \E id \in Ids : archiveHypothesis(id, TRUE)

SpecManual == Init /\ [][NextManual]_vars

\* C18: a new row is not manual; a manual row stays manual through every
\* operation; a row becomes manual only in a successful updateHypothesis on it
\* that changes its stored confidence, and such a call always makes it manual,
\* while an updateHypothesis with the stored confidence leaves the flag alone.
C18_ManualFlag ==
  [][/\ \A h \in DOMAIN hypothesis' \ DOMAIN hypothesis :
          ~hypothesis'[h].confidenceIsManual
     /\ \A h \in DOMAIN hypothesis \cap DOMAIN hypothesis' :
          LET was == hypothesis[h].confidenceIsManual
              is == hypothesis'[h].confidenceIsManual
              differs == hypothesis'[h].confidence # hypothesis[h].confidence
              updated == last'.op = "updateHypothesis" /\ last'.ok /\ last'.id = h
          IN /\ was => is
             /\ (~was /\ is) => (updated /\ differs)
             /\ updated => (is <=> (was \/ differs))]_vars

\* the flag was set by an update to the clamped value 100 and a later batch
\* recalculation left it set
C18_Witness ==
  /\ last.op = "recalculateAllConfidences"
  /\ \E h \in DOMAIN hypothesis : hypothesis[h].confidenceIsManual

\* an update that supplied the stored confidence left a row not manual
C18_WitnessSameConfidence ==
  /\ last.op = "updateHypothesis"
  /\ last.ok
  /\ ~hypothesis[last.id].confidenceIsManual

\* ------------------------------------------------------- the classifier
\* what classifyEvidence meets: whether the settings row can be read, whether
\* an API key is configured, and what the AI call does. A JSON answer carries
\* a direction (possibly not one of the five) and a strength that is a number
\* or is not one (missing, null, text).
JsonAnswers ==
  [kind : {"json"}, direction : Directions \cup {"MAYBE"},
   strength : {0, 3, 9}, strengthIsNumber : BOOLEAN]
NoAnswer(kind) ==
  [kind |-> kind, direction |-> "", strength |-> 0, strengthIsNumber |-> FALSE]
ClassifierResponses ==
  {NoAnswer("callThrows"), NoAnswer("noTextBlock"), NoAnswer("notJson")}
    \cup JsonAnswers
ClassifierEnvs ==
  [contextLoads : BOOLEAN, apiKey : BOOLEAN, response : ClassifierResponses]

\* the value classifyEvidence returns, or threw = TRUE when it rejects;
\* strengthIsNaN stands for the number NaN
Classification(direction, strength) ==
  [threw |-> FALSE, direction |-> direction, strength |-> strength,
   strengthIsNaN |-> FALSE]

classifyEvidence(env) ==
  IF ~env.contextLoads
  THEN \* getCompanyContext is awaited before the try block
       [threw |-> TRUE, direction |-> "", strength |-> 0, strengthIsNaN |-> FALSE]
  ELSE IF ~env.apiKey THEN Classification("NEUTRAL", 3)
  ELSE IF env.response.kind # "json" THEN Classification("NEUTRAL", 3)
  ELSE LET direction == IF env.response.direction \in Directions
                        THEN env.response.direction ELSE "NEUTRAL"
       IN IF env.response.strengthIsNumber
          THEN Classification(direction, clamp(env.response.strength, 1, 5))
          ELSE \* Math.max(1, Math.min(5, Math.round(undefined))) is NaN
               [threw |-> FALSE, direction |-> direction, strength |-> 0,
                strengthIsNaN |-> TRUE]

callClassifyEvidence(env) ==
  /\ last' = [op |-> "classifyEvidence", ok |-> TRUE, env |-> env,
              result |-> classifyEvidence(env)]
  /\ UNCHANGED <<calls>>
  /\ StoreUnchanged

\* addEvidenceSimple on a hypothesis that exists and is not manual, with the
\* classifier called as the code calls it: a rejection of classifyEvidence and
\* the rejection of evidence.create (strength NaN for an Int column) both end
\* in the catch block
addEvidenceSimpleClassifying(hypothesisId, env, prio) ==
  LET c == classifyEvidence(env)
  IN /\ hypothesisId \in DOMAIN hypothesis
     /\ ~hypothesis[hypothesisId].confidenceIsManual
     /\ nextEvidenceId <= MaxEvidence
     /\ IF c.threw \/ c.strengthIsNaN
        THEN Rejected(Result("addEvidenceSimple", FALSE, "Failed to add evidence"))
        ELSE addClassifiedEvidence("addEvidenceSimple", hypothesisId,
                                   [direction |-> c.direction, strength |-> c.strength],
                                   prio)

NextClassifier ==
  \/ createHypothesis("s", DEFAULT_CONFIDENCE)
  \/ \E env \in ClassifierEnvs : callClassifyEvidence(env)
  \/ \E id \in Ids, env \in ClassifierEnvs, prio \in RowOrders(hypothesisEdge) :
       addEvidenceSimpleClassifying(id, env, prio)

SpecClassifier == Init /\ [][NextClassifier]_vars

\* C19: classifyEvidence never throws and returns one of the five directions
\* with a strength in 1..5, NEUTRAL / 3 when the context cannot be loaded, the
\* key is missing, the AI call fails or the answer is malformed; and
\* addEvidenceSimple on a non-manual hypothesis returns ok:true whatever the
\* classifier meets.
C19_ClassifierNeverFails ==
  [][/\ last'.op = "classifyEvidence" =>
          LET r == last'.result
              env == last'.env
          IN /\ ~r.threw
             /\ ~r.strengthIsNaN
             /\ r.direction \in Directions
             /\ r.strength \in 1..5
             /\ (~env.contextLoads \/ ~env.apiKey \/ env.response.kind # "json")
                  => (r.direction = "NEUTRAL" /\ r.strength = 3)
     /\ last'.op = "addEvidenceSimple" => last'.ok]_vars

\* ------------------------------------------------------------ re-parenting
\* four root hypotheses, then linked and moved among each other: with four a
\* hypothesis can have two parents and still be moved under a third
InitMove ==
  /\ hypothesis = [h \in CascadeIds |-> NewRow(DEFAULT_CONFIDENCE, h - 1)]
  /\ hypothesisEdge = {}
  /\ evidence = {}
  /\ refutation = {}
  /\ hypothesisWatcher = {}
  /\ nextId = CascadeHyp + 1
  /\ nextEvidenceId = 1
  /\ nextRefutationId = 1
  /\ last = Result("init", TRUE, "")
  /\ calls = [p \in Procs |-> NoCall]

NextMove ==
  \/ \E h \in CascadeIds, p \in CascadeIds : moveHypothesisToParent(h, p)
  \/ \E p \in CascadeIds, c \in CascadeIds : linkExistingHypothesis(p, c)

SpecMove == InitMove /\ [][NextMove]_vars

\* C20: after a successful moveHypothesisToParent(h, p), h has exactly one
\* parent edge, p -> h, whatever number of parents it had before; its order is
\* one more than the largest order among p's child edges before the call (0 if
\* p had none); and no edge whose child is not h is added, removed or
\* re-ordered.
C20_MoveReparents ==
  [][(last'.op = "moveHypothesisToParent" /\ last'.ok) =>
       LET h == last'.id
           p == last'.parentId
           before == {e.order : e \in {x \in hypothesisEdge : x.parentId = p}}
       IN /\ \E e \in hypothesisEdge' :
               /\ {x \in hypothesisEdge' : x.childId = h} = {e}
               /\ e.parentId = p
               /\ e.order = IF before = {} THEN 0
                            ELSE (CHOOSE m \in before : \A o \in before : o <= m) + 1
          /\ {x \in hypothesisEdge' : x.childId # h}
               = {x \in hypothesisEdge : x.childId # h}]_vars

\* a hypothesis with two parents was moved under a third that already had a
\* child
C20_Witness ==
  /\ last.op = "moveHypothesisToParent"
  /\ last.ok
  /\ last.removed = 2
  /\ \E e \in hypothesisEdge :
       e.parentId = last.parentId /\ e.childId = last.id /\ e.order > 0

\* a root was moved under a parent without children
C20_WitnessFirstChild ==
  /\ last.op = "moveHypothesisToParent"
  /\ last.ok
  /\ last.removed = 0
  /\ \E e \in hypothesisEdge :
       e.parentId = last.parentId /\ e.childId = last.id /\ e.order = 0

\* C21: a successful linkExistingHypothesis with a parent adds exactly the edge
\* parent -> child and removes none, so the child keeps its previous parents;
\* with a null parent it removes exactly the edges whose child is childId,
\* adds none and returns ok:true.
C21_LinkIsAdditive ==
  [][/\ (last'.op = "linkExistingHypothesis" /\ last'.ok /\ last'.parentId # Null) =>
          \E e \in hypothesisEdge' :
            /\ e.parentId = last'.parentId
            /\ e.childId = last'.id
            /\ e \notin hypothesisEdge
            /\ ~HasEdge(hypothesisEdge, e.parentId, e.childId)
            /\ hypothesisEdge' = hypothesisEdge \cup {e}
            /\ ParentIds(hypothesisEdge', e.childId)
                 = ParentIds(hypothesisEdge, e.childId) \cup {e.parentId}
     /\ \A c \in Ids :
          linkExistingHypothesis(Null, c) =>
            /\ last'.ok
            /\ hypothesisEdge' = {e \in hypothesisEdge : e.childId # c}]_vars

\* a hypothesis that had a parent was linked under a second one
C21_Witness ==
  /\ last.op = "linkExistingHypothesis"
  /\ last.ok
  /\ last.parentId # Null
  /\ Cardinality(ParentIds(hypothesisEdge, last.id)) = 2

\* a link to null left the child a root while other edges stay
C21_WitnessRoot ==
  /\ last.op = "linkExistingHypothesis"
  /\ last.ok
  /\ last.parentId = Null
  /\ ParentIds(hypothesisEdge, last.id) = {}
  /\ hypothesisEdge # {}

\* -------------------------------------------------------------- root orders
\* roots are created, given children, archived and restored, moved and deleted
NextRoots ==
  \/ createHypothesis("s", DEFAULT_CONFIDENCE)
  \/ \E p \in Ids : createChildHypothesisAndEdge(p, "s", DEFAULT_CONFIDENCE)
  \/ \E id \in Ids, isArchived \in BOOLEAN : archiveHypothesis(id, isArchived)
  \/ \E h \in Ids, p \in Ids : moveHypothesisToParent(h, p)
  \/ \E id \in Ids : deleteHypothesis(id)

SpecRoots == Init /\ [][NextRoots]_vars

\* C22: createHypothesis gives the new root the order 1 + the maximum order of
\* the existing roots (0 when there are none), so after any sequence of
\* creates, archives, moves and deletes the new root's order is greater than
\* that of every existing root and no two roots share an order.
C22_RootOrders ==
  [][/\ (last'.op = "createHypothesis" /\ last'.ok) =>
          LET roots == Roots(hypothesis, hypothesisEdge)
              order == hypothesis'[last'.newId].order
          IN /\ roots = {} => order = 0
             /\ \A r \in roots : hypothesis[r].order < order
             /\ roots # {} => \E r \in roots : order = hypothesis[r].order + 1
     /\ \A a \in Roots(hypothesis', hypothesisEdge'),
           b \in Roots(hypothesis', hypothesisEdge') :
          a # b => hypothesis'[a].order # hypothesis'[b].order]_vars

\* ----------------------------------------------------------- computed status
\* variant: the thresholds are inclusive
computeStatusInclusive(confidence, evidenceCount, refutationCount, isArchived, hasTags) ==
  IF isArchived THEN "ARCHIVED"
  ELSE IF confidence >= 80 THEN "VALIDATED"
  ELSE IF confidence <= 20 THEN "REFUTED"
  ELSE IF evidenceCount > 0 \/ refutationCount > 0 \/ confidence # 50 \/ hasTags
  THEN "IN_TESTING"
  ELSE "NEW"

computeStatus(confidence, evidenceCount, refutationCount, isArchived, hasTags) ==
  IF isArchived THEN "ARCHIVED"
  ELSE IF confidence > 80 THEN "VALIDATED"
  ELSE IF confidence < 20 THEN "REFUTED"
  ELSE LET hasActivity == \/ evidenceCount > 0
                          \/ refutationCount > 0
                          \/ confidence # 50
                          \/ hasTags
       IN IF hasActivity THEN "IN_TESTING" ELSE "NEW"

StatusConfidenceInputs == {-5, 0, 19, 20, 21, 49, 50, 51, 79, 80, 81, 100, 130}
StatusCountInputs == {0, 1, 5}

callComputeStatus(confidence, evidenceCount, refutationCount, isArchived, hasTags) ==
  /\ last.op = "init"
  /\ last' = [op |-> "computeStatus", confidence |-> confidence,
              evidenceCount |-> evidenceCount, refutationCount |-> refutationCount,
              isArchived |-> isArchived, hasTags |-> hasTags,
              result |-> computeStatus(confidence, evidenceCount, refutationCount,
                                       isArchived, hasTags)]
  /\ UNCHANGED <<calls>>
  /\ StoreUnchanged

NextStatus ==
  \E confidence \in StatusConfidenceInputs, evidenceCount \in StatusCountInputs,
     refutationCount \in StatusCountInputs, isArchived \in BOOLEAN, hasTags \in BOOLEAN :
    callComputeStatus(confidence, evidenceCount, refutationCount, isArchived, hasTags)

SpecStatus == Init /\ [][NextStatus]_vars

\* C23: computeStatus is ARCHIVED whenever isArchived; otherwise VALIDATED when
\* confidence > 80 (80 itself is not); otherwise REFUTED when confidence < 20
\* (20 itself is not); otherwise IN_TESTING when there is any evidence, any
\* refutation, any tag or a confidence other than 50; otherwise NEW.
C23_ComputeStatus ==
  last.op = "computeStatus" =>
    LET active == \/ last.evidenceCount >= 1
                  \/ last.refutationCount >= 1
                  \/ last.hasTags
                  \/ last.confidence < 50
                  \/ last.confidence > 50
    IN /\ (last.result = "ARCHIVED") = last.isArchived
       /\ ~last.isArchived =>
            /\ (last.result = "VALIDATED") = (last.confidence \in 81..200)
            /\ (last.result = "REFUTED") = (last.confidence \in -100..19)
            /\ (last.result = "IN_TESTING") = (last.confidence \in 20..80 /\ active)
            /\ (last.result = "NEW") = (last.confidence = 50 /\ ~active)
       /\ last.result \in {"ARCHIVED", "VALIDATED", "REFUTED", "IN_TESTING", "NEW"}

\* confidence 80 without evidence, refutations or tags is IN_TESTING
C23_Witness ==
  /\ last.op = "computeStatus"
  /\ last.confidence = 80
  /\ last.evidenceCount = 0 /\ last.refutationCount = 0
  /\ ~last.isArchived /\ ~last.hasTags
  /\ last.result = "IN_TESTING"

\* ------------------------------------------------------- the batch recompute
\* four hypotheses with any set of edges between them, a cycle included (two
\* interleaved moves leave one), stored confidences that are stale, and
\* evidence on at most one of them; then recalculateAllConfidences runs
StaleConfidences == {50, 70}
BatchTableOrders ==
  {[i \in CascadeIds |-> i], [i \in CascadeIds |-> CascadeHyp + 1 - i]}

InitBatch ==
  /\ \E P \in SUBSET {pc \in CascadeIds \X CascadeIds : pc[1] # pc[2]} :
       hypothesisEdge = EdgesOfPairs(P)
  /\ \E c \in StaleConfidences :
       hypothesis = [h \in CascadeIds |-> NewRow(c, h - 1)]
  /\ \E h \in CascadeIds \cup {Null} :
       evidence = IF h = Null THEN {}
                  ELSE {[id |-> 1, hypothesisId |-> h,
                         direction |-> "SUPPORTS", strength |-> 5]}
  /\ refutation = {}
  /\ hypothesisWatcher = {}
  /\ nextId = CascadeHyp + 1
  /\ nextEvidenceId = 2
  /\ nextRefutationId = 1
  /\ last = Result("init", TRUE, "")
  /\ calls = [p \in Procs |-> NoCall]

NextBatch == \E prio \in BatchTableOrders : recalculateAllConfidences(prio)

SpecBatch == InitBatch /\ [][NextBatch]_vars

Acyclic(E) == \A h \in CascadeIds : h \notin Descendants(E, h)

\* F(n) of the specification
RECURSIVE StatedFinal(_, _, _)
StatedFinal(E, EV, n) ==
  LET own == calculateConfidence(EvidenceOf(EV, n))
      kids == SetToSeq(ChildIds(E, n))
  IN IF kids = <<>> THEN own
     ELSE calculateCascadingConfidence(own,
            [i \in 1..Len(kids) |-> StatedFinal(E, EV, kids[i])])

BatchUpdatedIds(updated) == {updated[i].id : i \in 1..Len(updated)}

\* C24: on an acyclic graph recalculateAllConfidences stores F(n) for every
\* hypothesis n, F being computed from the children's F (so a node is
\* finalized after its children); it writes only the nodes whose F(n) differs
\* from the stored value, returns exactly those with their old and new values,
\* and a run immediately afterwards reports no update.
C24_BatchStoresFinal ==
  [][(last'.op = "recalculateAllConfidences" /\ Acyclic(hypothesisEdge)) =>
       /\ last'.ok
       /\ \A n \in DOMAIN hypothesis :
            /\ hypothesis'[n].confidence = StatedFinal(hypothesisEdge, evidence, n)
            /\ hypothesis'[n] = [hypothesis[n] EXCEPT
                                   !.confidence = StatedFinal(hypothesisEdge, evidence, n)]
       /\ BatchUpdatedIds(last'.updated)
            = {n \in DOMAIN hypothesis :
                 StatedFinal(hypothesisEdge, evidence, n) # hypothesis[n].confidence}
       /\ Len(last'.updated) = Cardinality(BatchUpdatedIds(last'.updated))
       /\ \A i \in 1..Len(last'.updated) :
            /\ last'.updated[i].old = hypothesis[last'.updated[i].id].confidence
            /\ last'.updated[i].new
                 = StatedFinal(hypothesisEdge, evidence, last'.updated[i].id)
       /\ \A prio \in BatchTableOrders :
            recalculateAllConfidencesResult(hypothesis', hypothesisEdge', evidence',
                                            prio).updated = <<>>]_vars

\* on the chain 1 -> 2 -> 3 with evidence on the leaf all three were updated
C24_Witness ==
  /\ last.op = "recalculateAllConfidences"
  /\ Acyclic(hypothesisEdge)
  /\ \E a \in CascadeIds, b \in CascadeIds, c \in CascadeIds :
       /\ HasEdge(hypothesisEdge, a, b)
       /\ HasEdge(hypothesisEdge, b, c)
       /\ EvidenceOf(evidence, c) # <<>>
       /\ {a, b, c} \subseteq BatchUpdatedIds(last.updated)

\* no cycle is reachable from n through child edges
Healthy(E, n) == \A d \in Descendants(E, n) \cup {n} : d \notin Descendants(E, d)

\* C25: with a cycle in the graph recalculateAllConfidences returns ok:true;
\* every hypothesis from which no cycle is reachable is recomputed and stored
\* as on an acyclic graph, and every hypothesis on a cycle or above one keeps
\* its stored confidence and is not among the returned updates.
C25_BatchSkipsCycles ==
  [][(last'.op = "recalculateAllConfidences" /\ ~Acyclic(hypothesisEdge)) =>
       /\ last'.ok
       /\ \A n \in DOMAIN hypothesis :
            IF Healthy(hypothesisEdge, n)
            THEN /\ hypothesis'[n].confidence = StatedFinal(hypothesisEdge, evidence, n)
                 /\ (n \in BatchUpdatedIds(last'.updated))
                      = (hypothesis'[n].confidence # hypothesis[n].confidence)
            ELSE /\ hypothesis'[n].confidence = hypothesis[n].confidence
                 /\ n \notin BatchUpdatedIds(last'.updated)]_vars

\* with a cycle, a hypothesis above it and a healthy one, the healthy one was
\* updated
C25_Witness ==
  /\ last.op = "recalculateAllConfidences"
  /\ last.updated # <<>>
  /\ \E n \in CascadeIds :
       /\ ~Healthy(hypothesisEdge, n)
       /\ n \notin Descendants(hypothesisEdge, n)
       /\ hypothesis[n].confidence = 70
  /\ \E n \in CascadeIds : n \in Descendants(hypothesisEdge, n)

\* C27: when a cascade started at a non-manual hypothesis has finished on an
\* acyclic graph, the start and every ancestor of it hold
\* calculateCascadingConfidence(own evidence confidence, stored confidences of
\* the children) of the final state, also when an ancestor is reached by paths
\* of different lengths and in either order of the parents.
C27_CascadeLeavesAncestorsConsistent ==
  [][(last'.ok /\ last'.cascadeRan) =>
       \A a \in {last'.id} \cup AncestorsOf(hypothesisEdge', last'.id) :
         hypothesis'[a].confidence
           = calculateFinalConfidence(hypothesis', hypothesisEdge', evidence', a)]_vars

\* ------------------------------------------------------------- challenges
\* every answer the classifier can give to a challenge
ChallengeClassifierResults == [direction : Directions, strength : {1, 3, 5}]

NextChallenge ==
  \/ createHypothesis("s", DEFAULT_CONFIDENCE)
  \/ \E p \in Ids : createChildHypothesisAndEdge(p, "s", DEFAULT_CONFIDENCE)
  \/ \E id \in Ids, c \in UpdateConfidenceInputs : updateHypothesis(id, "s", c)
  \/ \E id \in Ids, st \in Statements, ai \in ChallengeClassifierResults,
        prio \in RowOrders(hypothesisEdge) : addChallengeSimple(id, st, ai, prio)

SpecChallenge == Init /\ [][NextChallenge]_vars

\* C28: every evidence row created by addChallengeSimple has direction REFUTES
\* or WEAKLY_REFUTES: a classifier result of WEAKLY_REFUTES or REFUTES is
\* kept, any other is replaced by REFUTES with the classifier's strength, and
\* on a manual hypothesis the row is REFUTES with strength 3.
C28_ChallengeRefutes ==
  [][\A id \in Ids, ai \in ChallengeClassifierResults, prio \in RowOrders(hypothesisEdge) :
       (addChallengeSimple(id, "s", ai, prio) /\ last'.ok) =>
         \E row \in evidence' :
           /\ evidence' = evidence \cup {row}
           /\ row \notin evidence
           /\ row.hypothesisId = id
           /\ row.direction \in {"REFUTES", "WEAKLY_REFUTES"}
           /\ IF hypothesis[id].confidenceIsManual
              THEN row.direction = "REFUTES" /\ row.strength = 3
              ELSE /\ row.strength = ai.strength
                   /\ ai.direction \in {"REFUTES", "WEAKLY_REFUTES"}
                        => row.direction = ai.direction
                   /\ ai.direction \notin {"REFUTES", "WEAKLY_REFUTES"}
                        => row.direction = "REFUTES"]_vars

\* a challenge on a hypothesis that is not manual was stored as REFUTES and
\* lowered the confidence from 50
C28_Witness ==
  /\ last.op = "addChallengeSimple"
  /\ last.ok
  /\ last.cascadeRan
  /\ \E row \in evidence : row.id = last.evidenceId /\ row.direction = "REFUTES"
                             /\ row.strength = 5
  /\ hypothesis[last.id].confidence = 35

\* a challenge on a manual hypothesis was stored as REFUTES / 3
C28_WitnessManual ==
  /\ last.op = "addChallengeSimple"
  /\ last.ok
  /\ hypothesis[last.id].confidenceIsManual
  /\ \E row \in evidence : row.id = last.evidenceId /\ row.direction = "REFUTES"
                             /\ row.strength = 3

\* ------------------------------------------------------- content timestamps
\* a small graph is built with several paths to an ancestor, then content is
\* edited; last.touched holds the rows whose contentUpdatedAt the call set to
\* its `now`
TouchClassifierResult == [direction |-> "SUPPORTS", strength |-> 5]

NextTouch ==
  \/ createHypothesis("s", DEFAULT_CONFIDENCE)
  \/ \E p \in Ids : createChildHypothesisAndEdge(p, "s", DEFAULT_CONFIDENCE)
  \/ \E p \in Ids, c \in Ids : linkExistingHypothesis(p, c)
  \/ \E id \in Ids : updateHypothesis(id, "s", DEFAULT_CONFIDENCE)
  \/ \E id \in Ids, prio \in RowOrders(hypothesisEdge) :
       addEvidenceSimple(id, "s", TouchClassifierResult, prio)
  \/ \E id \in Ids, prio \in RowOrders(hypothesisEdge) :
       addChallengeSimple(id, "s", TouchClassifierResult, prio)
  \/ \E ev \in EvidenceIds, prio \in RowOrders(hypothesisEdge) :
       updateEvidence(ev, "s", TouchClassifierResult, prio)
  \/ \E ev \in EvidenceIds, prio \in RowOrders(hypothesisEdge) : deleteEvidence(ev, prio)

SpecTouch == Init /\ [][NextTouch]_vars

ContentOps ==
  {"updateHypothesis", "addEvidenceSimple", "addChallengeSimple", "updateEvidence",
   "deleteEvidence"}
ContentParentOps == {"createChildHypothesisAndEdge", "linkExistingHypothesis"}

\* C29: after a successful updateHypothesis (even when no field changed),
\* addEvidenceSimple, addChallengeSimple, updateEvidence or deleteEvidence on
\* id, or createChildHypothesisAndEdge / linkExistingHypothesis under parent
\* id, exactly id and its ancestors carry the call's contentUpdatedAt, each
\* written once, and no other hypothesis has its contentUpdatedAt changed.
C29_ContentUpdatedReachesAncestors ==
  [][(last'.ok /\ last'.op \in ContentOps \cup ContentParentOps) =>
       LET id == IF last'.op \in ContentParentOps THEN last'.parentId ELSE last'.id
           writes == markContentUpdatedWrites(hypothesisEdge', <<id>>, {}, <<>>)
       IN /\ last'.touched = {id} \cup AncestorsOf(hypothesisEdge', id)
          /\ Range(writes) = last'.touched
          /\ Len(writes) = Cardinality(last'.touched)]_vars

\* with edges 1 -> 2 -> 3 and 1 -> 3 an update of 3 that changed no field
\* stamped all three
C29_Witness ==
  /\ last.op = "updateHypothesis"
  /\ last.ok
  /\ last.emitted = <<>>
  /\ last.touched = {1, 2, 3}
  /\ last.id = 3
  /\ HasEdge(hypothesisEdge, 1, 2)
  /\ HasEdge(hypothesisEdge, 2, 3)
  /\ HasEdge(hypothesisEdge, 1, 3)

\* ------------------------------------------- the cascade, query by query
\* A call of addEvidenceSimple that has written its evidence row and walks
\* the cascade keeps the local variables of recalculateConfidenceWithCascade:
\* toProcess and processed, and for the node in hand the row read by
\* getHypothesisData (its confidence and parents) and what
\* calculateFinalConfidence has read so far. visited lists the nodes taken in
\* hand, in order.
MaxRaceEvidence == 2

CascadeCall(hypothesisId, prio) ==
  [pc |-> "getHypothesisData", parentId |-> Null, childId |-> Null, maxOrder |-> -1,
   hypothesisId |-> hypothesisId, prio |-> prio,
   toProcess |-> <<hypothesisId>>, processed |-> {}, visited |-> <<>>,
   currentId |-> Null, hConfidence |-> 0, hParents |-> <<>>,
   ownConfidence |-> 0, children |-> {}, newConfidence |-> 0]

\* the handler up to evidence.create (lines 347-379); a manual hypothesis
\* gets the default classification and no cascade
addEvidenceSimpleCreate(p, hypothesisId, aiResult, prio) ==
  LET res(ok, error) == Result("addEvidenceSimple", ok, error)
  IN /\ calls[p].pc = "idle"
     /\ IF hypothesisId \notin DOMAIN hypothesis
        THEN /\ StoreUnchanged
             /\ Finish(p, res(FALSE, "Hypothesis not found"))
        ELSE LET manual == hypothesis[hypothesisId].confidenceIsManual
                 classification == IF manual
                                   THEN [direction |-> "SUPPORTS", strength |-> 3]
                                   ELSE aiResult
             IN /\ nextEvidenceId <= MaxRaceEvidence
                /\ evidence' = evidence \cup
                     {[id |-> nextEvidenceId, hypothesisId |-> hypothesisId,
                       direction |-> classification.direction,
                       strength |-> classification.strength]}
                /\ nextEvidenceId' = nextEvidenceId + 1
                /\ UNCHANGED <<hypothesis, hypothesisEdge, refutation, hypothesisWatcher,
                               nextId, nextRefutationId>>
                /\ IF manual
                   THEN Finish(p, [res(TRUE, "") EXCEPT
                                     !.id = hypothesisId,
                                     !.evidenceId = nextEvidenceId,
                                     !.skippedAutoCalc = "true"])
                   ELSE /\ calls' = [calls EXCEPT ![p] = CascadeCall(hypothesisId, prio)]
                        /\ UNCHANGED last

\* the head of the while loop: shift, the processed check, and
\* getHypothesisData(currentId); with an empty queue the cascade and the
\* handler return
cascadeGetHypothesisData(p) ==
  LET c == calls[p]
      currentId == Head(c.toProcess)
  IN /\ c.pc = "getHypothesisData"
     /\ StoreUnchanged
     /\ IF c.toProcess = <<>>
        THEN Finish(p, [Result("addEvidenceSimple", TRUE, "") EXCEPT
                          !.id = c.hypothesisId,
                          !.cascadeRan = TRUE,
                          !.visited = c.visited])
        ELSE /\ UNCHANGED last
             /\ IF currentId \in c.processed
                THEN calls' = [calls EXCEPT ![p].toProcess = Tail(c.toProcess)]
                ELSE IF currentId \notin DOMAIN hypothesis
                THEN calls' = [calls EXCEPT
                                 ![p].toProcess = Tail(c.toProcess),
                                 ![p].processed = c.processed \cup {currentId}]
                ELSE calls' = [calls EXCEPT
                                 ![p].pc = "calculateFinalConfidence",
                                 ![p].toProcess = Tail(c.toProcess),
                                 ![p].processed = c.processed \cup {currentId},
                                 ![p].visited = Append(c.visited, currentId),
                                 ![p].currentId = currentId,
                                 ![p].hConfidence = hypothesis[currentId].confidence,
                                 ![p].hParents =
                                    SeqByPrio(ParentIds(hypothesisEdge, currentId),
                                              c.prio)]

\* calculateFinalConfidence: its own getHypothesisData (evidence and children)
cascadeCalculateFinalConfidence(p) ==
  LET c == calls[p]
      ownConfidence == calculateConfidence(EvidenceOf(evidence, c.currentId))
      children == ChildIds(hypothesisEdge, c.currentId)
  IN /\ c.pc = "calculateFinalConfidence"
     /\ StoreUnchanged
     /\ UNCHANGED last
     /\ IF c.currentId \notin DOMAIN hypothesis
        THEN calls' = [calls EXCEPT ![p].pc = "update", ![p].newConfidence = 50]
        ELSE IF children = {}
        THEN calls' = [calls EXCEPT ![p].pc = "update",
                                    ![p].newConfidence = ownConfidence]
        ELSE calls' = [calls EXCEPT ![p].pc = "findManyChildren",
                                    ![p].ownConfidence = ownConfidence,
                                    ![p].children = children]

\* calculateFinalConfidence: hypothesis.findMany of the children's confidences
cascadeFindManyChildren(p) ==
  LET c == calls[p]
      rows == SetToSeq(c.children \cap DOMAIN hypothesis)
      childrenConfidences == [i \in 1..Len(rows) |-> hypothesis[rows[i]].confidence]
  IN /\ c.pc = "findManyChildren"
     /\ StoreUnchanged
     /\ UNCHANGED last
     /\ calls' = [calls EXCEPT
                    ![p].pc = "update",
                    ![p].newConfidence =
                       calculateCascadingConfidence(c.ownConfidence, childrenConfidences),
                    ![p].ownConfidence = 0,
                    ![p].children = {}]

\* hypothesis.update when the value differs from the one read first, then the
\* parents read first are queued
cascadeUpdate(p) ==
  LET c == calls[p]
      parents == SelectSeq(c.hParents, LAMBDA x : x \notin c.processed)
  IN /\ c.pc = "update"
     /\ c.currentId \in DOMAIN hypothesis
     /\ hypothesis' = IF c.newConfidence # c.hConfidence
                      THEN [hypothesis EXCEPT ![c.currentId].confidence = c.newConfidence]
                      ELSE hypothesis
     /\ UNCHANGED <<hypothesisEdge, evidence, refutation, hypothesisWatcher,
                    nextId, nextEvidenceId, nextRefutationId, last>>
     /\ calls' = [calls EXCEPT
                    ![p].pc = "getHypothesisData",
                    ![p].toProcess = c.toProcess \o parents,
                    ![p].currentId = Null,
                    ![p].hConfidence = 0,
                    ![p].hParents = <<>>,
                    ![p].newConfidence = 0]

\* a parent with two children, or a chain of three, all at 50 and consistent;
\* two requests add evidence at the same time
RaceGraphs ==
  { {[parentId |-> 1, childId |-> 2, order |-> 0],
     [parentId |-> 1, childId |-> 3, order |-> 1]},
    {[parentId |-> 1, childId |-> 2, order |-> 0],
     [parentId |-> 2, childId |-> 3, order |-> 0]} }

InitCascadeRace ==
  /\ hypothesis = [h \in Ids |-> NewRow(DEFAULT_CONFIDENCE, 0)]
  /\ hypothesisEdge \in RaceGraphs
  /\ evidence = {}
  /\ refutation = {}
  /\ hypothesisWatcher = {}
  /\ nextId = MaxHyp + 1
  /\ nextEvidenceId = 1
  /\ nextRefutationId = 1
  /\ last = Result("init", TRUE, "")
  /\ calls = [p \in Procs |-> NoCall]

NextCascadeRace ==
  \/ \E p \in Procs, id \in Ids, ai \in ClassifierResults, prio \in TableOrders :
       addEvidenceSimpleCreate(p, id, ai, prio)
  \/ \E p \in Procs : cascadeGetHypothesisData(p)
  \/ \E p \in Procs : cascadeCalculateFinalConfidence(p)
  \/ \E p \in Procs : cascadeFindManyChildren(p)
  \/ \E p \in Procs : cascadeUpdate(p)

SpecCascadeRace == InitCascadeRace /\ [][NextCascadeRace]_vars

\* C30: once two interleaved cascades have both finished, every parent's
\* stored confidence equals calculateCascadingConfidence(own evidence
\* confidence, stored confidences of its children): no interleaving leaves a
\* stale ancestor.
C30_ConcurrentCascadesConverge ==
  \A x \in Ids, y \in Ids :
    ( /\ \A p \in Procs : calls[p].pc = "idle"
      /\ x # y
      /\ EvidenceOf(evidence, x) # <<>>
      /\ EvidenceOf(evidence, y) # <<>>
      /\ \/ ParentIds(hypothesisEdge, x) \cap ParentIds(hypothesisEdge, y) # {}
         \/ x \in AncestorsOf(hypothesisEdge, y) )
    => \A h \in {x, y} \cup AncestorsOf(hypothesisEdge, x)
                       \cup AncestorsOf(hypothesisEdge, y) :
         hypothesis[h].confidence
           = calculateFinalConfidence(hypothesis, hypothesisEdge, evidence, h)

\* --------------------------------------------- the traversals, step by step
\* One request walks the graph; a step is one turn of the while loop of the
\* traversal. The graph is any set of edges between the hypotheses, a cycle
\* included. visited lists the ids taken in hand, in order; prio is the order
\* in which findMany returns rows.
WalkCall(pc, start, target, prio) ==
  [pc |-> pc, parentId |-> Null, childId |-> Null, maxOrder |-> -1,
   prio |-> prio, target |-> target, queue |-> <<start>>, visited |-> <<>>,
   ancestors |-> <<>>]

WalkResult(op, result, visited) ==
  [op |-> op, ok |-> TRUE, result |-> result, visited |-> visited]

Unvisited(c, current) ==
  SelectSeq(SeqByPrio(ParentIds(hypothesisEdge, current), c.prio),
            LAMBDA x : x \notin Range(c.visited) \cup {current})

isDescendantStart(p, potentialDescendant, ancestorId, prio) ==
  /\ calls[p].pc = "idle"
  /\ last.op = "init"
  /\ StoreUnchanged
  /\ UNCHANGED last
  /\ calls' = [calls EXCEPT
                 ![p] = WalkCall("isDescendant", potentialDescendant, ancestorId, prio)]

isDescendantStep(p) ==
  LET c == calls[p]
      current == Head(c.queue)
  IN /\ c.pc = "isDescendant"
     /\ StoreUnchanged
     /\ IF c.queue = <<>>
        THEN Finish(p, WalkResult("isDescendant", FALSE, c.visited))
        ELSE IF current \in Range(c.visited)
        THEN /\ UNCHANGED last
             /\ calls' = [calls EXCEPT ![p].queue = Tail(c.queue)]
        ELSE IF current = c.target
        THEN Finish(p, WalkResult("isDescendant", TRUE, Append(c.visited, current)))
        ELSE /\ UNCHANGED last
             /\ calls' = [calls EXCEPT
                            ![p].queue = Tail(c.queue) \o Unvisited(c, current),
                            ![p].visited = Append(c.visited, current)]

getAncestorIdsStart(p, hypothesisId, prio) ==
  /\ calls[p].pc = "idle"
  /\ last.op = "init"
  /\ StoreUnchanged
  /\ UNCHANGED last
  /\ calls' = [calls EXCEPT ![p] = WalkCall("getAncestorIds", hypothesisId, Null, prio)]

getAncestorIdsStep(p) ==
  LET c == calls[p]
      current == Head(c.queue)
      edges == SeqByPrio(ParentIds(hypothesisEdge, current), c.prio)
  IN /\ c.pc = "getAncestorIds"
     /\ StoreUnchanged
     /\ IF c.queue = <<>>
        THEN Finish(p, WalkResult("getAncestorIds", c.ancestors, c.visited))
        ELSE /\ UNCHANGED last
             /\ IF current \in Range(c.visited)
                THEN calls' = [calls EXCEPT ![p].queue = Tail(c.queue)]
                ELSE calls' = [calls EXCEPT
                                 ![p].queue = Tail(c.queue) \o Unvisited(c, current),
                                 ![p].visited = Append(c.visited, current),
                                 ![p].ancestors = c.ancestors \o edges]

markContentUpdatedStart(p, hypothesisId, prio) ==
  /\ calls[p].pc = "idle"
  /\ last.op = "init"
  /\ StoreUnchanged
  /\ UNCHANGED last
  /\ calls' = [calls EXCEPT
                 ![p] = WalkCall("markContentUpdated", hypothesisId, Null, prio)]

\* variant: a queued id is not checked against visited when it is taken
markContentUpdatedStepNoVisitedCheck(p) ==
  LET c == calls[p]
      current == Head(c.queue)
  IN /\ c.pc = "markContentUpdated"
     /\ StoreUnchanged
     /\ IF c.queue = <<>>
        THEN Finish(p, WalkResult("markContentUpdated", Range(c.visited), c.visited))
        ELSE IF current \notin DOMAIN hypothesis
        THEN Finish(p, [WalkResult("markContentUpdated", Range(c.visited), c.visited)
                          EXCEPT !.ok = FALSE])
        ELSE /\ UNCHANGED last
             /\ calls' = [calls EXCEPT
                            ![p].queue = Tail(c.queue) \o Unvisited(c, current),
                            ![p].visited = Append(c.visited, current)]

\* hypothesis.update of a row that does not exist rejects and ends the walk
markContentUpdatedStep(p) ==
  LET c == calls[p]
      current == Head(c.queue)
  IN /\ c.pc = "markContentUpdated"
     /\ StoreUnchanged
     /\ IF c.queue = <<>>
        THEN Finish(p, WalkResult("markContentUpdated", Range(c.visited), c.visited))
        ELSE IF current \in Range(c.visited)
        THEN /\ UNCHANGED last
             /\ calls' = [calls EXCEPT ![p].queue = Tail(c.queue)]
        ELSE IF current \notin DOMAIN hypothesis
        THEN Finish(p, [WalkResult("markContentUpdated", Range(c.visited), c.visited)
                          EXCEPT !.ok = FALSE])
        ELSE /\ UNCHANGED last
             /\ calls' = [calls EXCEPT
                            ![p].queue = Tail(c.queue) \o Unvisited(c, current),
                            ![p].visited = Append(c.visited, current)]

\* recalculateAllConfidences: findMany with evidence and children, and the
\* base confidences
recalculateAllConfidencesFindMany(p, prio) ==
  /\ calls[p].pc = "idle"
  /\ last.op = "init"
  /\ StoreUnchanged
  /\ UNCHANGED last
  /\ calls' = [calls EXCEPT ![p] =
                 [pc |-> "wave", parentId |-> Null, childId |-> Null, maxOrder |-> -1,
                  prio |-> prio, visited |-> <<>>,
                  edges |-> hypothesisEdge,
                  base |-> [h \in DOMAIN hypothesis |->
                              calculateConfidence(EvidenceOf(evidence, h))],
                  remaining |-> SeqByPrio(DOMAIN hypothesis, prio),
                  final |-> <<>>]]

\* one turn of the while loop: a wave over `remaining`, then the safety check
recalculateAllConfidencesWave(p) ==
  LET c == calls[p]
      w == scanWave(c.edges, c.base, c.remaining, c.final, <<>>)
      stalled == Len(w.nextRemaining) = Len(c.remaining)
  IN /\ c.pc = "wave"
     /\ StoreUnchanged
     /\ UNCHANGED last
     /\ IF c.remaining = <<>>
        THEN calls' = [calls EXCEPT ![p].pc = "writeAll"]
        ELSE calls' = [calls EXCEPT
                         ![p].pc = IF stalled THEN "writeAll" ELSE "wave",
                         ![p].remaining = IF stalled THEN c.remaining
                                          ELSE w.nextRemaining,
                         ![p].final = w.final,
                         ![p].visited =
                            c.visited \o
                              SelectSeq(c.remaining,
                                        LAMBDA x : x \in DOMAIN w.final \ DOMAIN c.final)]

\* the write loop
recalculateAllConfidencesWrite(p) ==
  LET c == calls[p]
      r == writeAll(hypothesis, SeqByPrio(DOMAIN hypothesis, c.prio), c.final, <<>>)
  IN /\ c.pc = "writeAll"
     /\ hypothesis' = r.hypothesis
     /\ UNCHANGED <<hypothesisEdge, evidence, refutation, hypothesisWatcher,
                    nextId, nextEvidenceId, nextRefutationId>>
     /\ Finish(p, [Result("recalculateAllConfidences", TRUE, "") EXCEPT
                     !.updated = r.updated, !.visited = c.visited])

\* the request that walks
Walker == "a"

InitTraversal ==
  /\ hypothesis = [h \in Ids |-> NewRow(DEFAULT_CONFIDENCE, h - 1)]
  /\ \E P \in SUBSET {pc \in Ids \X Ids : pc[1] # pc[2]} :
       hypothesisEdge = EdgesOfPairs(P)
  /\ evidence = {}
  /\ refutation = {}
  /\ hypothesisWatcher = {}
  /\ nextId = MaxHyp + 1
  /\ nextEvidenceId = 1
  /\ nextRefutationId = 1
  /\ last = Result("init", TRUE, "")
  /\ calls = [p \in Procs |-> NoCall]

NextTraversal ==
  \/ \E d \in Ids, a \in Ids, prio \in TableOrders : isDescendantStart(Walker, d, a, prio)
  \/ isDescendantStep(Walker)
  \/ \E id \in Ids, prio \in TableOrders : getAncestorIdsStart(Walker, id, prio)
  \/ getAncestorIdsStep(Walker)
  \/ \E id \in Ids, prio \in TableOrders : markContentUpdatedStart(Walker, id, prio)
  \/ markContentUpdatedStep(Walker)
  \/ \E id \in Ids, prio \in TableOrders :
       /\ last.op = "init"
       /\ addEvidenceSimpleCreate(Walker, id, TouchClassifierResult, prio)
  \/ cascadeGetHypothesisData(Walker)
  \/ cascadeCalculateFinalConfidence(Walker)
  \/ cascadeFindManyChildren(Walker)
  \/ cascadeUpdate(Walker)
  \/ \E prio \in TableOrders : recalculateAllConfidencesFindMany(Walker, prio)
  \/ recalculateAllConfidencesWave(Walker)
  \/ recalculateAllConfidencesWrite(Walker)

\* a request that has started keeps running
SpecTraversal == InitTraversal /\ [][NextTraversal]_vars /\ WF_vars(NextTraversal)

\* C26: on every edge graph, a cycle included, isDescendant, getAncestorIds,
\* markContentUpdated, recalculateConfidenceWithCascade and the wave loop of
\* recalculateAllConfidences terminate; the walks take each hypothesis in hand
\* at most once and every wave finalizes at least one node or stops the loop.
C26_TraversalsTerminate ==
  /\ [](calls[Walker].pc # "idle" => NoDuplicates(calls[Walker].visited))
  /\ [](last.op # "init" => NoDuplicates(last.visited))
  /\ [][(calls[Walker].pc = "wave" /\ calls'[Walker].pc = "wave")
          => Len(calls'[Walker].remaining) < Len(calls[Walker].remaining)]_vars
  /\ (calls[Walker].pc # "idle") ~> (calls[Walker].pc = "idle")

\* isDescendant finished on a graph with the cycle 1 -> 2 -> 1 after taking
\* both in hand
C26_Witness ==
  /\ last.op = "isDescendant"
  /\ calls[Walker].pc = "idle"
  /\ HasEdge(hypothesisEdge, 1, 2)
  /\ HasEdge(hypothesisEdge, 2, 1)
  /\ Len(last.visited) >= 2

\* the cascade finished on a graph with a cycle
C26_WitnessCascade ==
  /\ last.op = "addEvidenceSimple"
  /\ last.cascadeRan
  /\ calls[Walker].pc = "idle"
  /\ Len(last.visited) = MaxHyp
  /\ \E h \in Ids : h \in Descendants(hypothesisEdge, h)

\* the wave loop stopped on a graph with a cycle
C26_WitnessWaves ==
  /\ last.op = "recalculateAllConfidences"
  /\ calls[Walker].pc = "idle"
  /\ \E h \in Ids : h \in Descendants(hypothesisEdge, h)

====
